---- MODULE Spec2Model ----
(***************************************************************************)
(* Verification model of the auto-parts e-commerce backend:                *)
(*   - role resolution            (server.py, app/core/security.py)        *)
(*   - cursor pagination          (app/api/v1/endpoints/products.py,       *)
(*                                 app/api/v1/endpoints/orders.py)         *)
(*   - server-side cart pricing   (server.py)                              *)
(*   - checkout / order handling  (server.py, app/api/v1/endpoints/        *)
(*                                 orders.py)                              *)
(*                                                                         *)
(* Money is fixed-point, in thousandths of the currency unit (mills), so   *)
(* that Python's round(x, 2) is a real conversion: Round2 rounds to a      *)
(* multiple of 10 mills.  Binary floating-point noise is not modelled.     *)
(* Every handler is one atomic action in the specifications below, except  *)
(* in SpecRace, where the add handlers are split at the await between      *)
(* their read of db.carts and their write to it.                           *)
(***************************************************************************)
EXTENDS Integers, Sequences, FiniteSets, TLC

VARIABLES
    partners,      \* db.partners    : set of [email, deleted]
    admins,        \* db.admins      : set of [email, deleted]
    subscribers,   \* db.subscribers : set of [email, deleted]
    products,      \* db.products    : product id -> product document
    carts,         \* db.carts       : user id -> NoCart or [exists, items]
    orders,        \* db.orders      : sequence of order documents
    outbox,        \* notifications inserted and broadcasts sent by the last request
    resp,          \* the last request and its HTTP outcome
    docs,          \* the collection a listing traversal pages through
    listing,       \* parameters of the listing traversal
    pages,         \* responses of the forward traversal so far
    prevResp,      \* the last direction=prev response and the page it came from
    began,         \* the documents matching the filter when the traversal began
    budget,        \* number of write requests the session may still serve
    cart_docs,     \* db.carts as the list of its documents (interleaved handlers)
    tasks,         \* the add requests in flight: position and local variables
    active_connections,     \* ConnectionManager: user_id -> set of websockets
    anonymous_connections,  \* ConnectionManager: websockets opened without user_id
    broadcasting   \* the broadcast in flight: position, iterators, deliveries

vars == <<partners, admins, subscribers, products, carts, orders, outbox, resp,
          docs, listing, pages, prevResp, began, budget, cart_docs, tasks,
          active_connections, anonymous_connections, broadcasting>>

roleVars == <<partners, admins, subscribers>>
shopVars == <<products, carts, orders>>
pageVars == <<docs, listing, pages, prevResp, began>>
raceVars == <<cart_docs, tasks>>
wsVars == <<active_connections, anonymous_connections, broadcasting>>

(***************************************************************************)
(* Bounds of the model                                                     *)
(***************************************************************************)
MaxDocs == 4
MaxTime == 2
MaxLimit == 2
MaxQty == 2
MaxRequests == 3
MaxOrderRequests == 2
MaxStatusRequests == 3
MaxDeletes == 1
MaxInserts == 1
MaxTasks == 2
InitStock == 1
MaxSockets == 2
MaxLines == 2
MaxQtyRequests == 2

(***************************************************************************)
(* Generic helpers                                                         *)
(***************************************************************************)
Last(s) == s[Len(s)]

NotReversed(s) == s

\* list(reversed(...))
Reverse(s) == [i \in 1..Len(s) |-> s[Len(s) + 1 - i]]

Take(s, n) == SubSeq(s, 1, IF n < Len(s) THEN n ELSE Len(s))

RECURSIVE Concat(_)
Concat(ss) == IF ss = <<>> THEN <<>> ELSE Head(ss) \o Concat(Tail(ss))

(***************************************************************************)
(* Identities and role resolution                                          *)
(***************************************************************************)
NoUser == "anonymous"
PRIMARY_OWNER_EMAIL == "pc.2025.ai@gmail.com"
Emails == {PRIMARY_OWNER_EMAIL, "partner@shop", "staff@shop", "cust@shop"}
RoleEmails == {PRIMARY_OWNER_EMAIL, "staff@shop"}
Identities == Emails \cup {NoUser}
\* the callers of the reference-collection endpoints
RoleCallers == RoleEmails \cup {NoUser}

Member(coll, email) == \E r \in coll : r.email = email /\ ~r.deleted

get_user_role_admin_first(user) ==
    IF user = NoUser THEN "guest"
    ELSE IF user = PRIMARY_OWNER_EMAIL THEN "owner"
    ELSE IF Member(admins, user) THEN "admin"
    ELSE IF Member(partners, user) THEN "partner"
    ELSE IF Member(subscribers, user) THEN "subscriber"
    ELSE "user"

\* server.py get_user_role
get_user_role(user) ==
    IF user = NoUser THEN "guest"
    ELSE IF user = PRIMARY_OWNER_EMAIL THEN "owner"
    ELSE IF Member(partners, user) THEN "partner"
    ELSE IF Member(admins, user) THEN "admin"
    ELSE IF Member(subscribers, user) THEN "subscriber"
    ELSE "user"

\* app/core/security.py get_user_role
v1_get_user_role(user) ==
    IF user = NoUser THEN "guest"
    ELSE IF user = PRIMARY_OWNER_EMAIL THEN "owner"
    ELSE IF Member(partners, user) THEN "partner"
    ELSE IF Member(admins, user) THEN "admin"
    ELSE IF Member(subscribers, user) THEN "subscriber"
    ELSE "user"

NoResp == [op |-> "none", impl |-> "none", caller |-> NoUser, role |-> "guest",
           status |-> 0, arg |-> "none", value |-> 0, doc |-> <<>>]

\* a request (operation, implementation, caller, the role the handler resolved,
\* its main argument) and its outcome (HTTP status, a number of the body);
\* doc holds the document the handler returned or read, if it is recorded
RespV(op, impl, caller, role, status, arg, value) ==
    [op |-> op, impl |-> impl, caller |-> caller, role |-> role,
     status |-> status, arg |-> arg, value |-> value, doc |-> <<>>]

RespDoc(op, impl, caller, role, status, arg, value, doc) ==
    [RespV(op, impl, caller, role, status, arg, value) EXCEPT !.doc = <<doc>>]

Resp(op, impl, caller, role, status, arg) == RespV(op, impl, caller, role, status, arg, 0)

NoOutbox == [notifs |-> <<>>, bcasts |-> <<>>]

Sent(notifs, bcasts) == [notifs |-> notifs, bcasts |-> bcasts]

Bcast(type, tables, order_id) == [type |-> type, tables |-> tables, order_id |-> order_id]

Sync(tables) == Bcast("sync", tables, 0)

SoftDelete(coll, r) == (coll \ {r}) \cup {[r EXCEPT !.deleted = TRUE]}

\* server.py add_partner: owner only, rejects an email that is a live partner
add_partner ==
    \E caller \in RoleCallers, email \in RoleEmails :
        LET role == get_user_role(caller) IN
        /\ IF role # "owner"
              THEN /\ resp' = Resp("add_partner", "server", caller, role, 403, email)
                   /\ outbox' = NoOutbox
                   /\ UNCHANGED partners
              ELSE IF Member(partners, email)
              THEN /\ resp' = Resp("add_partner", "server", caller, role, 400, email)
                   /\ outbox' = NoOutbox
                   /\ UNCHANGED partners
              ELSE /\ resp' = Resp("add_partner", "server", caller, role, 200, email)
                   /\ partners' = partners \cup {[email |-> email, deleted |-> FALSE]}
                   /\ outbox' = Sent(<<>>, <<Sync(<<"partners">>)>>)
        /\ UNCHANGED <<admins, subscribers, shopVars, pageVars, raceVars, wsVars, budget>>

\* server.py delete_partner: owner only, soft delete
delete_partner ==
    \E caller \in RoleCallers, r \in partners :
        LET role == get_user_role(caller) IN
        /\ IF role # "owner"
              THEN /\ resp' = Resp("delete_partner", "server", caller, role, 403, r.email)
                   /\ outbox' = NoOutbox
                   /\ UNCHANGED partners
              ELSE /\ resp' = Resp("delete_partner", "server", caller, role, 200, r.email)
                   /\ partners' = SoftDelete(partners, r)
                   /\ outbox' = Sent(<<>>, <<Sync(<<"partners">>)>>)
        /\ UNCHANGED <<admins, subscribers, shopVars, pageVars, raceVars, wsVars, budget>>

\* server.py add_admin: owner or partner
add_admin ==
    \E caller \in RoleCallers, email \in RoleEmails :
        LET role == get_user_role(caller) IN
        /\ IF role \notin {"owner", "partner"}
              THEN /\ resp' = Resp("add_admin", "server", caller, role, 403, email)
                   /\ outbox' = NoOutbox
                   /\ UNCHANGED admins
              ELSE IF Member(admins, email)
              THEN /\ resp' = Resp("add_admin", "server", caller, role, 400, email)
                   /\ outbox' = NoOutbox
                   /\ UNCHANGED admins
              ELSE /\ resp' = Resp("add_admin", "server", caller, role, 200, email)
                   /\ admins' = admins \cup {[email |-> email, deleted |-> FALSE]}
                   /\ outbox' = Sent(<<>>, <<Sync(<<"admins">>)>>)
        /\ UNCHANGED <<partners, subscribers, shopVars, pageVars, raceVars, wsVars, budget>>

\* server.py delete_admin: owner or partner, soft delete
delete_admin ==
    \E caller \in RoleCallers, r \in admins :
        LET role == get_user_role(caller) IN
        /\ IF role \notin {"owner", "partner"}
              THEN /\ resp' = Resp("delete_admin", "server", caller, role, 403, r.email)
                   /\ outbox' = NoOutbox
                   /\ UNCHANGED admins
              ELSE /\ resp' = Resp("delete_admin", "server", caller, role, 200, r.email)
                   /\ admins' = SoftDelete(admins, r)
                   /\ outbox' = Sent(<<>>, <<Sync(<<"admins">>)>>)
        /\ UNCHANGED <<partners, subscribers, shopVars, pageVars, raceVars, wsVars, budget>>

\* app/api/v1/endpoints/subscribers.py add_subscriber: owner or partner
add_subscriber ==
    \E caller \in RoleCallers, email \in RoleEmails :
        LET role == v1_get_user_role(caller) IN
        /\ IF role \notin {"owner", "partner"}
              THEN /\ resp' = Resp("add_subscriber", "v1", caller, role, 403, email)
                   /\ outbox' = NoOutbox
                   /\ UNCHANGED subscribers
              ELSE IF Member(subscribers, email)
              THEN /\ resp' = Resp("add_subscriber", "v1", caller, role, 400, email)
                   /\ outbox' = NoOutbox
                   /\ UNCHANGED subscribers
              ELSE /\ resp' = Resp("add_subscriber", "v1", caller, role, 200, email)
                   /\ subscribers' = subscribers \cup {[email |-> email, deleted |-> FALSE]}
                   /\ outbox' = Sent(<<>>, <<Sync(<<"subscribers">>)>>)
        /\ UNCHANGED <<partners, admins, shopVars, pageVars, raceVars, wsVars, budget>>

\* app/api/v1/endpoints/subscribers.py delete_subscriber: owner or partner
delete_subscriber ==
    \E caller \in RoleCallers, r \in subscribers :
        LET role == v1_get_user_role(caller) IN
        /\ IF role \notin {"owner", "partner"}
              THEN /\ resp' = Resp("delete_subscriber", "v1", caller, role, 403, r.email)
                   /\ outbox' = NoOutbox
                   /\ UNCHANGED subscribers
              ELSE /\ resp' = Resp("delete_subscriber", "v1", caller, role, 200, r.email)
                   /\ subscribers' = SoftDelete(subscribers, r)
                   /\ outbox' = Sent(<<>>, <<Sync(<<"subscribers">>)>>)
        /\ UNCHANGED <<partners, admins, shopVars, pageVars, raceVars, wsVars, budget>>

(***************************************************************************)
(* Cursor pagination (get_products, get_orders)                            *)
(*   a document is [id, created_at, deleted, hidden, user_id]; ids are     *)
(*   positive integers compared as the _id strings are; NoCursor stands    *)
(*   for an absent cursor / a null next_cursor                             *)
(***************************************************************************)
NoCursor == 0
ListUser == "cust@shop"
OtherUser == "staff@shop"

DocIds == 1..MaxDocs
Times == 1..MaxTime
Limits == 1..MaxLimit

DocById(coll, id) == CHOOSE d \in coll : d.id = id

PastCursorInclusive(d, c, direction) ==
    IF direction = "next"
    THEN \/ d.created_at < c.created_at
         \/ (d.created_at = c.created_at /\ d.id <= c.id)
    ELSE \/ d.created_at > c.created_at
         \/ (d.created_at = c.created_at /\ d.id >= c.id)

\* the compound boundary condition appended to the query under "$and"
PastCursor(d, c, direction) ==
    IF direction = "next"
    THEN \/ d.created_at < c.created_at
         \/ (d.created_at = c.created_at /\ d.id < c.id)
    ELSE \/ d.created_at > c.created_at
         \/ (d.created_at = c.created_at /\ d.id > c.id)

SortsBeforeTieAscending(a, b, sort_direction) ==
    IF sort_direction = -1
    THEN \/ a.created_at > b.created_at
         \/ (a.created_at = b.created_at /\ a.id < b.id)
    ELSE \/ a.created_at < b.created_at
         \/ (a.created_at = b.created_at /\ a.id < b.id)

\* a sorts before b under .sort([("created_at", dir), ("_id", dir)])
SortsBefore(a, b, sort_direction) ==
    IF sort_direction = -1
    THEN \/ a.created_at > b.created_at
         \/ (a.created_at = b.created_at /\ a.id > b.id)
    ELSE \/ a.created_at < b.created_at
         \/ (a.created_at = b.created_at /\ a.id < b.id)

RECURSIVE SortDocs(_, _)
SortDocs(S, sort_direction) ==
    IF S = {} THEN <<>>
    ELSE LET first == CHOOSE a \in S :
                          \A b \in S \ {a} : SortsBefore(a, b, sort_direction)
         IN <<first>> \o SortDocs(S \ {first}, sort_direction)

PageOf(items, next_cursor, prev_cursor, has_more, total) ==
    [items |-> items, next_cursor |-> next_cursor, prev_cursor |-> prev_cursor,
     has_more |-> has_more, total |-> total]

PaginateNoTiebreak(coll, base, cursor, direction, limit) ==
    LET hasDoc   == cursor # NoCursor /\ \E d \in coll : d.id = cursor
        query    == IF hasDoc
                    THEN {d \in base :
                            IF direction = "next"
                            THEN d.created_at < DocById(coll, cursor).created_at
                            ELSE d.created_at > DocById(coll, cursor).created_at}
                    ELSE base
        sort_direction == IF direction = "next" THEN -1 ELSE 1
        found    == Take(SortDocs(query, sort_direction), limit + 1)
        has_more == Len(found) > limit
        trimmed  == IF has_more THEN Take(found, limit) ELSE found
        listed   == IF direction = "prev" THEN Reverse(trimmed) ELSE trimmed
        ids      == [i \in 1..Len(listed) |-> listed[i].id]
    IN PageOf(ids,
              IF ids # <<>> /\ has_more THEN Last(ids) ELSE NoCursor,
              IF ids # <<>> /\ cursor # NoCursor THEN Head(ids) ELSE NoCursor,
              has_more, Cardinality(base))

\* the listing algorithm shared by both endpoints, lines 57-126 of products.py
\* and 39-80 of orders.py: base is the set of documents matching the filter
Paginate(coll, base, cursor, direction, limit) ==
    LET hasDoc   == cursor # NoCursor /\ \E d \in coll : d.id = cursor
        query    == IF hasDoc
                    THEN {d \in base : PastCursor(d, DocById(coll, cursor), direction)}
                    ELSE base
        sort_direction == IF direction = "next" THEN -1 ELSE 1
        found    == Take(SortDocs(query, sort_direction), limit + 1)
        has_more == Len(found) > limit
        trimmed  == IF has_more THEN Take(found, limit) ELSE found
        listed   == IF direction = "prev" THEN Reverse(trimmed) ELSE trimmed
        ids      == [i \in 1..Len(listed) |-> listed[i].id]
    IN PageOf(ids,
              IF ids # <<>> /\ has_more THEN Last(ids) ELSE NoCursor,
              IF ids # <<>> /\ cursor # NoCursor THEN Head(ids) ELSE NoCursor,
              has_more, Cardinality(base))

\* products.py: query = {"deleted_at": None} plus the hidden_status condition
ProductsFilter(coll, include_hidden) ==
    {d \in coll : ~d.deleted /\ (include_hidden \/ ~d.hidden)}

\* orders.py: query = {"user_id": user["id"], "deleted_at": None}
OrdersFilter(coll, user) ==
    {d \in coll : d.user_id = user /\ ~d.deleted}

\* the filter of the traversal in progress
Matching ==
    IF listing.endpoint = "products"
    THEN ProductsFilter(docs, listing.include_hidden)
    ELSE OrdersFilter(docs, ListUser)

NoPrev == [from |-> 0, page |-> PageOf(<<>>, NoCursor, NoCursor, FALSE, 0)]

\* the request a client issues next: the first page, the page after the last
\* one received (cursor = its next_cursor), or the page before a received
\* one (direction = prev, cursor = its prev_cursor)
ForwardCursor == IF pages = <<>> THEN NoCursor ELSE Last(pages).next_cursor

CanForward == IF pages = <<>> THEN TRUE ELSE Last(pages).next_cursor # NoCursor

Traverse(base) ==
    \/ /\ CanForward
       /\ pages' = Append(pages, Paginate(docs, base, ForwardCursor, "next", listing.limit))
       /\ prevResp' = NoPrev
       /\ began' = IF pages = <<>> THEN base ELSE began
    \/ \E i \in 1..Len(pages) :
          /\ pages[i].prev_cursor # NoCursor
          /\ prevResp' = [from |-> i,
                          page |-> Paginate(docs, base, pages[i].prev_cursor, "prev",
                                            listing.limit)]
          /\ UNCHANGED <<pages, began>>

\* app/api/v1/endpoints/products.py get_products
v1_get_products ==
    /\ listing.endpoint = "products"
    /\ Traverse(ProductsFilter(docs, listing.include_hidden))
    /\ resp' = Resp("get_products", "v1", NoUser, "unresolved", 200, "none")
    /\ outbox' = NoOutbox
    /\ UNCHANGED <<roleVars, shopVars, docs, listing, budget, raceVars, wsVars>>

\* app/api/v1/endpoints/orders.py get_orders
v1_get_orders ==
    /\ listing.endpoint = "orders"
    /\ \E caller \in {NoUser, ListUser} :
          IF caller = NoUser
          THEN /\ resp' = Resp("get_orders", "v1", caller, "unresolved", 401, "none")
               /\ UNCHANGED <<pages, prevResp, began>>
          ELSE /\ resp' = Resp("get_orders", "v1", caller, "unresolved", 200, "none")
               /\ Traverse(OrdersFilter(docs, caller))
    /\ outbox' = NoOutbox
    /\ UNCHANGED <<roleVars, shopVars, docs, listing, budget, raceVars, wsVars>>

\* "created_at": datetime.now(timezone.utc): not earlier than any stored one
Now == {t \in Times : \A d \in docs : d.created_at <= t}

\* "_id": f"prod_{uuid.uuid4().hex[:8]}": any id no document has
FreshIds == {i \in DocIds : \A d \in docs : d.id # i}

\* app/api/v1/endpoints/products.py create_product: no role is required
v1_create_product ==
    /\ listing.endpoint = "products"
    /\ budget > 0
    /\ budget' = budget - 1
    /\ \E id \in FreshIds, t \in Now :
          docs' = docs \cup {[id |-> id, created_at |-> t, deleted |-> FALSE,
                               hidden |-> FALSE, user_id |-> ListUser]}
    /\ resp' = Resp("create_product", "v1", NoUser, "unresolved", 200, "none")
    /\ outbox' = Sent(<<>>, <<Sync(<<"products">>)>>)
    /\ UNCHANGED <<roleVars, shopVars, listing, pages, prevResp, began, raceVars, wsVars>>

\* app/api/v1/endpoints/orders.py delete_order: owner only, a hard delete
v1_delete_order ==
    /\ listing.endpoint = "orders"
    /\ \E caller \in {ListUser, PRIMARY_OWNER_EMAIL}, order_id \in DocIds :
          LET role == v1_get_user_role(caller)
          IN IF role # "owner"
             THEN /\ resp' = RespV("delete_order", "v1", caller, role, 403, "none", order_id)
                  /\ outbox' = NoOutbox
                  /\ UNCHANGED <<docs, budget>>
             ELSE IF ~(\E d \in docs : d.id = order_id)
             THEN /\ resp' = RespV("delete_order", "v1", caller, role, 404, "none", order_id)
                  /\ outbox' = NoOutbox
                  /\ UNCHANGED <<docs, budget>>
             ELSE /\ budget > 0
                  /\ budget' = budget - 1
                  /\ docs' = docs \ {DocById(docs, order_id)}
                  /\ resp' = RespV("delete_order", "v1", caller, role, 200, "none", order_id)
                  /\ outbox' = Sent(<<>>, <<Bcast("order_deleted", <<>>, order_id),
                                            Sync(<<"orders", "analytics">>)>>)
    /\ UNCHANGED <<roleVars, shopVars, listing, pages, prevResp, began, raceVars, wsVars>>

(***************************************************************************)
(* Money                                                                   *)
(***************************************************************************)
\* n / m rounded to the nearest integer, ties to even (Python's round)
RoundHalfEven(n, m) ==
    LET q == n \div m
        r == n % m
    IN IF 2 * r < m THEN q
       ELSE IF 2 * r > m THEN q + 1
       ELSE IF q % 2 = 0 THEN q ELSE q + 1

\* round(x, 2) on an amount in mills
Round2(x) == 10 * RoundHalfEven(x, 10)

\* round(original * (1 - pct / 100), 2)
BundlePrice(original, pct) == 10 * RoundHalfEven(original * (100 - pct), 1000)

SHIPPING_COST == 150000

(***************************************************************************)
(* Catalog and cart fixture                                                *)
(***************************************************************************)
Shopper == "cust@shop"
\* a user without a cart document; a cart document is [exists |-> TRUE, items]
NoCart == [exists |-> FALSE, items |-> <<>>]

CartOf(items) == [exists |-> TRUE, items |-> items]
NoGroup == "none"
\* an optional field of a document: <<>> when the key is absent, <<v>> otherwise
Absent == <<>>
Present(v) == <<v>>

ProductIds == {"pA", "pB"}
ReqProductIds == ProductIds \cup {"pX"}          \* pX names no product
RepricedIds == {"pB"}                            \* products whose price is edited
DeletedIds == {"pB"}                             \* products a delete request names
NewPrices == {10004}                             \* 10.004, a sub-cent price
Quantities == 1..MaxQty
UpdateQuantities == {0, MaxQty}                  \* removal, and a new quantity
\* bundle_context of an add: (bundle_group_id, bundle_discount_percentage)
BundleContexts == {<<NoGroup, 0>>, <<"g1", 20>>}
BundledIds == {"pB"}                             \* products offered in bundle g1
Groups == {"g1", "g2"}
\* add-enhanced payload prices; 0 stands for an omitted (None) price
EnhancedPrices == {<<0, 0>>, <<50000, 45005>>}
EnhancedIds == {"pB", "pX"}
EnhancedQuantities == {1}

InitProducts ==
    [p \in ProductIds |->
        [price |-> IF p = "pA" THEN 100000 ELSE 50000,
         stock_quantity |-> InitStock,
         deleted |-> FALSE]]

Line(pid, qty, original, final, dtype, dvalue, group) ==
    [product_id |-> pid, quantity |-> qty,
     original_unit_price |-> original, final_unit_price |-> final,
     discount_type |-> dtype, discount_value |-> dvalue,
     bundle_group_id |-> group]

\* find_one({"_id": pid}) on db.products
ProductExists(pid) == pid \in DOMAIN products

\* a write request is served while the session's request budget lasts
Serve == budget > 0 /\ budget' = budget - 1

(***************************************************************************)
(* Cart handlers (server.py)                                               *)
(***************************************************************************)
SumOver(items, f(_)) ==
    LET RECURSIVE S(_)
        S(i) == IF i = 0 THEN 0 ELSE S(i - 1) + f(items[i])
    IN S(Len(items))

LineOriginalTotal(item) == item.original_unit_price * item.quantity
LineDiscount(item) == (item.original_unit_price - item.final_unit_price) * item.quantity

\* server.py get_cart: reads only
get_cart ==
    \E caller \in {NoUser, Shopper} :
        /\ IF caller = NoUser
              THEN resp' = Resp("get_cart", "server", caller, "unresolved", 401, "none")
              ELSE resp' = RespV("get_cart", "server", caller, "unresolved", 200, "none",
                     IF ~carts[caller].exists THEN 0
                     ELSE Round2(SumOver(carts[caller].items, LineOriginalTotal)
                                 - SumOver(carts[caller].items, LineDiscount)))
        /\ outbox' = NoOutbox
        /\ UNCHANGED <<roleVars, shopVars, pageVars, raceVars, wsVars, budget>>

\* the line an add builds from the live product (lines 1409-1431): the
\* original price is the product's, the final price is always rounded
CartItem(pid, qty, ctx) ==
    LET original_price == products[pid].price
    IN Line(pid, qty, original_price,
            IF ctx[2] > 0 THEN BundlePrice(original_price, ctx[2])
            ELSE Round2(original_price),
            IF ctx[2] > 0 THEN "bundle" ELSE "none", ctx[2], ctx[1])

ExistingIdxByProduct(items, pid, group) ==
    LET hits == {i \in 1..Len(items) : items[i].product_id = pid}
    IN IF hits = {} THEN 0 ELSE CHOOSE i \in hits : \A j \in hits : i <= j

\* index of the first line with the add's grouping key, 0 if none (lines 1443-1452)
ExistingIdx(items, pid, group) ==
    LET hits == {i \in 1..Len(items) :
                    /\ items[i].product_id = pid
                    /\ IF group # NoGroup
                       THEN items[i].bundle_group_id = group
                       ELSE items[i].bundle_group_id = NoGroup}
    IN IF hits = {} THEN 0 ELSE CHOOSE i \in hits : \A j \in hits : i <= j

\* server.py add_to_cart, the payload's quantity drawn from `quantities`
add_to_cart_of(quantities) ==
    \E caller \in {NoUser, Shopper} :
        /\ IF caller = NoUser
              THEN /\ resp' = Resp("add_to_cart", "server", caller, "unresolved", 401, "none")
                   /\ UNCHANGED <<budget, carts>>
              ELSE \E pid \in ReqProductIds, qty \in quantities, ctx \in BundleContexts :
                     /\ ctx[1] # NoGroup => pid \in BundledIds
                     /\ IF ~ProductExists(pid)
                           THEN /\ resp' = Resp("add_to_cart", "server", caller, "unresolved",
                                                404, pid)
                                /\ UNCHANGED <<budget, carts>>
                           ELSE LET cart_item == CartItem(pid, qty, ctx)
                                    cart == carts[caller]
                                    idx == IF ~cart.exists THEN 0
                                           ELSE ExistingIdx(cart.items, pid, ctx[1])
                                IN /\ Serve
                                   \* return {"message": "Added", "item": cart_item}
                                   /\ resp' = RespDoc("add_to_cart", "server", caller,
                                                      "unresolved", 200, pid, 0, cart_item)
                                   /\ IF ~cart.exists
                                         THEN carts' = [carts EXCEPT
                                                          ![caller] = CartOf(<<cart_item>>)]
                                         ELSE IF idx # 0
                                         THEN carts' = [carts EXCEPT
                                                          ![caller].items[idx].quantity = @ + qty]
                                         ELSE carts' = [carts EXCEPT
                                                          ![caller].items = Append(@, cart_item)]
        /\ outbox' = NoOutbox
        /\ UNCHANGED <<roleVars, products, orders, pageVars, raceVars, wsVars>>

\* server.py add_to_cart with the quantities a shop client sends
add_to_cart == add_to_cart_of(Quantities)

\* "$pull": {"items": {"product_id": pid}}
Pull(items, pid) == SelectSeq(items, LAMBDA it : it.product_id # pid)

\* "items.$.quantity": the first line matching "items.product_id": pid
FirstOfProduct(items, pid) ==
    LET hits == {i \in 1..Len(items) : items[i].product_id = pid}
    IN IF hits = {} THEN 0 ELSE CHOOSE i \in hits : \A j \in hits : i <= j

\* server.py update_cart
update_cart ==
    \E caller \in {NoUser, Shopper} :
        /\ IF caller = NoUser
              THEN /\ resp' = Resp("update_cart", "server", caller, "unresolved", 401, "none")
                   /\ UNCHANGED <<budget, carts>>
              ELSE \E pid \in ReqProductIds, qty \in UpdateQuantities :
                     /\ Serve
                     /\ resp' = RespV("update_cart", "server", caller, "unresolved", 200,
                                      pid, qty)
                     /\ IF ~carts[caller].exists
                           THEN UNCHANGED carts
                           ELSE IF qty <= 0
                           THEN carts' = [carts EXCEPT ![caller].items = Pull(@, pid)]
                           ELSE LET idx == FirstOfProduct(carts[caller].items, pid)
                                IN IF idx = 0
                                   THEN UNCHANGED carts
                                   ELSE carts' = [carts EXCEPT
                                                    ![caller].items[idx].quantity = qty]
        /\ outbox' = NoOutbox
        /\ UNCHANGED <<roleVars, products, orders, pageVars, raceVars, wsVars>>

\* server.py add_to_cart_enhanced: prices come from the payload, always appends
add_to_cart_enhanced_of(quantities) ==
    \E caller \in {NoUser, Shopper} :
        /\ IF caller = NoUser
              THEN /\ resp' = Resp("add_to_cart_enhanced", "server", caller, "unresolved",
                                   401, "none")
                   /\ UNCHANGED <<budget, carts>>
              ELSE \E pid \in EnhancedIds, qty \in quantities, pr \in EnhancedPrices :
                     IF ~ProductExists(pid)
                     THEN /\ resp' = Resp("add_to_cart_enhanced", "server", caller,
                                          "unresolved", 404, "none")
                          /\ UNCHANGED <<budget, carts>>
                     ELSE LET cart_item ==
                                Line(pid, qty,
                                     IF pr[1] # 0 THEN pr[1] ELSE products[pid].price,
                                     IF pr[2] # 0 THEN pr[2] ELSE products[pid].price,
                                     "absent", 0, NoGroup)
                          IN /\ Serve
                             /\ resp' = Resp("add_to_cart_enhanced", "server", caller,
                                             "unresolved", 200, "none")
                             /\ IF ~carts[caller].exists
                                   THEN carts' = [carts EXCEPT ![caller] = CartOf(<<cart_item>>)]
                                   ELSE carts' = [carts EXCEPT
                                                    ![caller].items = Append(@, cart_item)]
        /\ outbox' = NoOutbox
        /\ UNCHANGED <<roleVars, products, orders, pageVars, raceVars, wsVars>>

add_to_cart_enhanced == add_to_cart_enhanced_of(EnhancedQuantities)

\* CartItemAdd.quantity and CartItemAddEnhanced.quantity are declared
\* `quantity: int = 1` with no validator: any integer is accepted
AnyQuantities == {-1, 0, 1}
add_to_cart_any == add_to_cart_of(AnyQuantities)
add_to_cart_enhanced_any == add_to_cart_enhanced_of(AnyQuantities)

\* server.py clear_cart
clear_cart ==
    \E caller \in {NoUser, Shopper} :
        /\ IF caller = NoUser
              THEN /\ resp' = Resp("clear_cart", "server", caller, "unresolved", 401, "none")
                   /\ UNCHANGED budget
                   /\ UNCHANGED carts
              ELSE /\ Serve
                   /\ resp' = Resp("clear_cart", "server", caller, "unresolved", 200, "none")
                   /\ IF ~carts[caller].exists
                         THEN UNCHANGED carts
                         ELSE carts' = [carts EXCEPT ![caller].items = <<>>]
        /\ outbox' = NoOutbox
        /\ UNCHANGED <<roleVars, products, orders, pageVars, raceVars, wsVars>>

\* the rewrite of one line by void_bundle_discount (lines 1569-1575)
VoidedToggle(item, group) ==
    IF item.bundle_group_id = group
    THEN [item EXCEPT !.final_unit_price = item.original_unit_price,
                      !.original_unit_price = item.final_unit_price,
                      !.discount_type = "none", !.discount_value = 0]
    ELSE item

VoidedEveryLine(item, group) ==
    [item EXCEPT !.final_unit_price = item.original_unit_price,
                 !.discount_type = "none", !.discount_value = 0,
                 !.bundle_group_id = NoGroup]

\* one line of the loop of void_bundle_discount (lines 1568-1575)
Voided(item, group) ==
    IF item.bundle_group_id = group
    THEN [item EXCEPT !.final_unit_price = item.original_unit_price,
                      !.discount_type = "none", !.discount_value = 0,
                      !.bundle_group_id = NoGroup]
    ELSE item

\* server.py void_bundle_discount
void_bundle_discount ==
    \E caller \in {NoUser, Shopper}, group \in Groups :
        /\ IF caller = NoUser
              THEN /\ resp' = Resp("void_bundle_discount", "server", caller, "unresolved", 401, "none")
                   /\ UNCHANGED budget
                   /\ UNCHANGED carts
              ELSE /\ Serve
                   /\ resp' = Resp("void_bundle_discount", "server", caller, "unresolved", 200, group)
                   /\ IF ~carts[caller].exists
                         THEN UNCHANGED carts
                         ELSE carts' = [carts EXCEPT ![caller].items =
                                          [i \in 1..Len(@) |-> Voided(@[i], group)]]
        /\ outbox' = NoOutbox
        /\ UNCHANGED <<roleVars, products, orders, pageVars, raceVars, wsVars>>

(***************************************************************************)
(* The add handlers, split at the await between find_one and the write     *)
(* (server.py).  db.carts is a list of documents here: no index makes      *)
(* user_id unique (app/core/database.py creates none on carts), so the     *)
(* collection can hold several documents of one user.                      *)
(***************************************************************************)
TaskIds == 1..MaxTasks

IdleTask == [pc |-> "idle", op |-> "none", user |-> NoUser, item |-> <<>>,
             group |-> NoGroup, cart |-> <<>>,
             \* a checkout: next cart line, order items so far, order id, clear done
             pos |-> 0, lines |-> <<>>, order |-> 0, cleared |-> FALSE]

IdleRace ==
    /\ cart_docs = <<>>
    /\ tasks = [t \in TaskIds |-> IdleTask]

CartDoc(user_id, items) == [user_id |-> user_id, items |-> items]

\* index of the first document of the user in db.carts, 0 if none
CartIdx(user_id) ==
    LET hits == {i \in 1..Len(cart_docs) : cart_docs[i].user_id = user_id}
    IN IF hits = {} THEN 0 ELSE CHOOSE i \in hits : \A j \in hits : i <= j

\* cart = await db.carts.find_one({"user_id": user["id"]}): Absent or the document
FindCart(user_id) ==
    IF CartIdx(user_id) = 0 THEN Absent ELSE Present(cart_docs[CartIdx(user_id)])

\* a document or array element lacks product_id (and every other field
\* but quantity): the fields it lacks read as NoProductId, 0 and "absent"
NoProductId == "missing"
OnlyQuantity(qty) == Line(NoProductId, qty, 0, 0, "absent", 0, NoGroup)
\* a null array element
NullLine == Line(NoProductId, 0, 0, 0, "null", 0, NoGroup)

\* "$inc": {"items.<idx>.quantity": qty} cannot descend into a null element
IncFails(items, idx) == idx <= Len(items) /\ items[idx] = NullLine

\* "$inc": {"items.<idx>.quantity": qty} on the stored array (line 1458):
\* the element now at that index is incremented, whatever it is; past the
\* end, the array is padded with nulls and gets an element {quantity: qty}
IncAt(items, idx, qty) ==
    IF IncFails(items, idx) THEN items
    ELSE IF idx <= Len(items) THEN [items EXCEPT ![idx].quantity = @ + qty]
    ELSE items \o [i \in 1..(idx - Len(items) - 1) |-> NullLine] \o <<OnlyQuantity(qty)>>

\* add_to_cart up to its read of the cart (lines 1400-1433)
add_to_cart_find(t) ==
    /\ tasks[t].pc = "idle"
    /\ \E caller \in {NoUser, Shopper} :
          IF caller = NoUser
          THEN /\ resp' = Resp("add_to_cart", "server", caller, "unresolved", 401, "none")
               /\ tasks' = [tasks EXCEPT ![t].pc = "done"]
          ELSE \E pid \in ReqProductIds, qty \in Quantities, ctx \in BundleContexts :
                 /\ ctx[1] # NoGroup => pid \in BundledIds
                 /\ IF ~ProductExists(pid)
                       THEN /\ resp' = Resp("add_to_cart", "server", caller, "unresolved",
                                            404, pid)
                            /\ tasks' = [tasks EXCEPT ![t].pc = "done"]
                       ELSE /\ UNCHANGED resp
                            /\ tasks' = [tasks EXCEPT ![t] =
                                   [IdleTask EXCEPT
                                      !.pc = "found", !.op = "add_to_cart",
                                      !.user = caller,
                                      !.item = Present(CartItem(pid, qty, ctx)),
                                      !.group = ctx[1], !.cart = FindCart(caller)]]
    /\ outbox' = NoOutbox
    /\ UNCHANGED <<roleVars, shopVars, pageVars, wsVars, budget, cart_docs>>

\* the line the add found in the cart it read (0 if none)
FoundIdx(task) ==
    IF task.cart = Absent THEN 0
    ELSE ExistingIdx(task.cart[1].items, task.item[1].product_id, task.group)

\* the update raises a write error, which the handler does not catch
AddWriteFails(task) ==
    /\ FoundIdx(task) # 0
    /\ IncFails(cart_docs[CartIdx(task.user)].items, FoundIdx(task))

\* add_to_cart from "if not cart" to the return (lines 1434-1473); the cart
\* tested and searched is the one read before the await
add_to_cart_write(t) ==
    /\ tasks[t].pc = "found"
    /\ tasks[t].op = "add_to_cart"
    /\ LET cart_item == tasks[t].item[1]
           user_id == tasks[t].user
           at == CartIdx(user_id)
       IN IF tasks[t].cart = Absent
          THEN cart_docs' = Append(cart_docs, CartDoc(user_id, <<cart_item>>))
          ELSE LET existing_idx == ExistingIdx(tasks[t].cart[1].items,
                                               cart_item.product_id, tasks[t].group)
               IN IF existing_idx # 0
                  THEN cart_docs' = [cart_docs EXCEPT
                                       ![at].items =
                                           IncAt(@, existing_idx, cart_item.quantity)]
                  ELSE cart_docs' = [cart_docs EXCEPT
                                       ![at].items = Append(@, cart_item)]
    /\ tasks' = [tasks EXCEPT ![t].pc = "done"]
    /\ resp' = RespDoc("add_to_cart", "server", tasks[t].user, "unresolved",
                       IF AddWriteFails(tasks[t]) THEN 500 ELSE 200,
                       tasks[t].item[1].product_id, 0, tasks[t].item[1])
    /\ outbox' = NoOutbox
    /\ UNCHANGED <<roleVars, shopVars, pageVars, wsVars, budget>>

\* add_to_cart_enhanced up to its read of the cart (lines 1507-1527)
add_to_cart_enhanced_find(t) ==
    /\ tasks[t].pc = "idle"
    /\ \E caller \in {NoUser, Shopper} :
          IF caller = NoUser
          THEN /\ resp' = Resp("add_to_cart_enhanced", "server", caller, "unresolved",
                               401, "none")
               /\ tasks' = [tasks EXCEPT ![t].pc = "done"]
          ELSE \E pid \in EnhancedIds, qty \in EnhancedQuantities, pr \in EnhancedPrices :
                 IF ~ProductExists(pid)
                 THEN /\ resp' = Resp("add_to_cart_enhanced", "server", caller,
                                      "unresolved", 404, "none")
                      /\ tasks' = [tasks EXCEPT ![t].pc = "done"]
                 ELSE /\ UNCHANGED resp
                      /\ tasks' = [tasks EXCEPT ![t] =
                             [IdleTask EXCEPT
                                !.pc = "found", !.op = "add_to_cart_enhanced",
                                !.user = caller,
                                !.item = Present(Line(pid, qty,
                                          IF pr[1] # 0 THEN pr[1] ELSE products[pid].price,
                                          IF pr[2] # 0 THEN pr[2] ELSE products[pid].price,
                                          "absent", 0, NoGroup)),
                                !.cart = FindCart(caller)]]
    /\ outbox' = NoOutbox
    /\ UNCHANGED <<roleVars, shopVars, pageVars, wsVars, budget, cart_docs>>

\* add_to_cart_enhanced from "if not cart" to the return (lines 1528-1544)
add_to_cart_enhanced_write(t) ==
    /\ tasks[t].pc = "found"
    /\ tasks[t].op = "add_to_cart_enhanced"
    /\ LET cart_item == tasks[t].item[1]
           user_id == tasks[t].user
           at == CartIdx(user_id)
       IN IF tasks[t].cart = Absent
          THEN cart_docs' = Append(cart_docs, CartDoc(user_id, <<cart_item>>))
          ELSE cart_docs' = [cart_docs EXCEPT ![at].items = Append(@, cart_item)]
    /\ tasks' = [tasks EXCEPT ![t].pc = "done"]
    /\ resp' = Resp("add_to_cart_enhanced", "server", tasks[t].user, "unresolved", 200,
                    "none")
    /\ outbox' = NoOutbox
    /\ UNCHANGED <<roleVars, shopVars, pageVars, wsVars, budget>>

(***************************************************************************)
(* Product price edits (server.py; products.py has the same handlers)      *)
(***************************************************************************)
\* server.py update_product_price: no authentication, no existence check
update_product_price ==
    \E pid \in RepricedIds \cup {"pX"}, price \in NewPrices :
        /\ Serve
        /\ IF ProductExists(pid)
              THEN products' = [products EXCEPT ![pid].price = price]
              ELSE UNCHANGED products
        /\ resp' = Resp("update_product_price", "server", NoUser, "unresolved", 200, "none")
        /\ outbox' = Sent(<<>>, <<Sync(<<"products">>)>>)
        /\ UNCHANGED <<roleVars, carts, orders, pageVars, raceVars, wsVars>>

\* server.py update_product: "$set" of the whole payload, price and stock included
update_product ==
    \E pid \in RepricedIds, price \in NewPrices, stock \in {InitStock} :
        /\ Serve
        /\ products' = [products EXCEPT ![pid].price = price,
                                        ![pid].stock_quantity = stock]
        /\ resp' = Resp("update_product", "server", NoUser, "unresolved", 200, "none")
        /\ outbox' = Sent(<<>>, <<Sync(<<"products">>)>>)
        /\ UNCHANGED <<roleVars, carts, orders, pageVars, raceVars, wsVars>>

\* products.py delete_product (server.py 1331-1335 is the same handler): a
\* soft delete, deleted_at is set and the document stays in db.products
v1_delete_product ==
    \E pid \in DeletedIds :
        /\ Serve
        /\ IF ProductExists(pid)
              THEN products' = [products EXCEPT ![pid].deleted = TRUE]
              ELSE UNCHANGED products
        /\ resp' = Resp("delete_product", "v1", NoUser, "unresolved", 200, pid)
        /\ outbox' = Sent(<<>>, <<Sync(<<"products">>)>>)
        /\ UNCHANGED <<roleVars, carts, orders, pageVars, raceVars, wsVars>>

(***************************************************************************)
(* Checkout                                                                *)
(***************************************************************************)
Notif(user_id, title, order_id) == [user_id |-> user_id, title |-> title, order_id |-> order_id]

\* db.users holds a document for every identity of the fixture, the owner included
UserExists(email) == email \in Emails

OrderDoc(id, user_id, items, subtotal, discount, total_discount, shipping_cost, total, order_source) ==
    [id |-> id, user_id |-> user_id, items |-> items, subtotal |-> subtotal,
     discount |-> discount, total_discount |-> total_discount,
     shipping_cost |-> shipping_cost, total |-> total, status |-> "pending",
     order_source |-> order_source]

CartIsEmptyOnlyAbsent(cart) == ~cart.exists

\* "if not cart or not cart.get('items')" (server.py 1611)
CartIsEmpty(cart) == ~cart.exists \/ cart.items = <<>>

\* the same test in orders.py, line 134
v1_CartIsEmpty(cart) == ~cart.exists \/ cart.items = <<>>

DeletedCart(cart) == NoCart

\* update_one({"user_id": ...}, {"$set": {"items": []}}) (server.py 1683)
ClearedCart(cart) == [cart EXCEPT !.items = <<>>]

\* the same update in orders.py, line 205
v1_ClearedCart(cart) == [cart EXCEPT !.items = <<>>]

\* the cart lines whose product document is found (the others are skipped)
Included(items) == SelectSeq(items, LAMBDA it : ProductExists(it.product_id))

OrderItemLivePrice(item) ==
    [item EXCEPT !.original_unit_price = products[item.product_id].price,
                 !.final_unit_price = products[item.product_id].price]

\* server.py create_order, lines 1634-1647: the order item copies the cart's prices
OrderItem(item) == item

\* orders.py create_order, lines 146-165
v1_OrderItem(item) == item

SubtotalLive(items) ==
    SumOver(items, LAMBDA it : products[it.product_id].price * it.quantity)

\* subtotal += original_price * quantity
Subtotal(items) == SumOver(items, LineOriginalTotal)

\* total_discount += (original_price - final_price) * quantity
TotalDiscount(items) == SumOver(items, LineDiscount)

\* server.py create_order
create_order ==
    \E caller \in {NoUser, Shopper} :
        /\ IF caller = NoUser
              THEN /\ resp' = Resp("create_order", "server", caller, "unresolved", 401, "none")
                   /\ UNCHANGED budget
                   /\ outbox' = NoOutbox
                   /\ UNCHANGED <<carts, orders>>
              ELSE IF CartIsEmpty(carts[caller])
              THEN /\ resp' = Resp("create_order", "server", caller, "unresolved", 400, "none")
                   /\ UNCHANGED budget
                   /\ outbox' = NoOutbox
                   /\ UNCHANGED <<carts, orders>>
              ELSE LET lines == Included(carts[caller].items)
                       order_items == [i \in 1..Len(lines) |-> OrderItem(lines[i])]
                       subtotal == Subtotal(lines)
                       total_discount == TotalDiscount(lines)
                       shipping == 150000
                       final_total == (subtotal - total_discount) + shipping
                       order == OrderDoc(Len(orders) + 1, caller, order_items,
                                         Round2(subtotal), Absent, Present(Round2(total_discount)),
                                         shipping, Round2(final_total), "customer_app")
                   IN /\ Serve
                      /\ orders' = Append(orders, order)
                      /\ carts' = [carts EXCEPT ![caller] = ClearedCart(@)]
                      /\ resp' = RespV("create_order", "server", caller, "unresolved", 200,
                                       "none", order.id)
                      /\ outbox' = Sent(IF UserExists(PRIMARY_OWNER_EMAIL)
                                        THEN <<Notif(PRIMARY_OWNER_EMAIL, "New Order", 0)>>
                                        ELSE <<>>,
                                        <<Sync(<<"orders">>)>>)
        /\ UNCHANGED <<roleVars, products, pageVars, raceVars, wsVars>>

\* the conditional "$inc" of stock_quantity, line by line (orders.py 141-171, 320-345)
RECURSIVE DecrementStock(_, _)
DecrementStock(prods, items) ==
    IF items = <<>> THEN prods
    ELSE LET it == Head(items)
             pid == it.product_id
         IN IF pid \in DOMAIN prods /\ prods[pid].stock_quantity >= it.quantity
            THEN DecrementStock([prods EXCEPT ![pid].stock_quantity = @ - it.quantity],
                                Tail(items))
            ELSE DecrementStock(prods, Tail(items))

\* orders.py create_order
v1_create_order ==
    \E caller \in {NoUser, Shopper} :
        /\ IF caller = NoUser
              THEN /\ resp' = Resp("create_order", "v1", caller, "unresolved", 401, "none")
                   /\ UNCHANGED budget
                   /\ outbox' = NoOutbox
                   /\ UNCHANGED <<products, carts, orders>>
              ELSE IF v1_CartIsEmpty(carts[caller])
              THEN /\ resp' = Resp("create_order", "v1", caller, "unresolved", 400, "none")
                   /\ UNCHANGED budget
                   /\ outbox' = NoOutbox
                   /\ UNCHANGED <<products, carts, orders>>
              ELSE LET lines == Included(carts[caller].items)
                       items == [i \in 1..Len(lines) |-> v1_OrderItem(lines[i])]
                       subtotal == Subtotal(lines)
                       total_discount == TotalDiscount(lines)
                       total == subtotal - total_discount + SHIPPING_COST
                       order_doc == OrderDoc(Len(orders) + 1, caller, items,
                                             Round2(subtotal), Present(Round2(total_discount)), Absent,
                                             SHIPPING_COST, Round2(total), "customer_app")
                   IN /\ Serve
                      /\ products' = DecrementStock(products, lines)
                      /\ orders' = Append(orders, order_doc)
                      /\ carts' = [carts EXCEPT ![caller] = v1_ClearedCart(@)]
                      /\ resp' = RespV("create_order", "v1", caller, "unresolved", 200,
                                       "none", order_doc.id)
                      /\ outbox' = Sent(<<Notif(caller, "Order Placed!", order_doc.id)>>,
                                        <<Bcast("order_created", <<>>, order_doc.id),
                                          Sync(<<"orders", "products">>)>>)
        /\ UNCHANGED <<roleVars, pageVars, raceVars, wsVars>>

\* first document of the user in db.carts that has a line of the product
CartIdxWith(user_id, pid) ==
    LET hits == {i \in 1..Len(cart_docs) :
                    /\ cart_docs[i].user_id = user_id
                    /\ \E j \in 1..Len(cart_docs[i].items) :
                          cart_docs[i].items[j].product_id = pid}
    IN IF hits = {} THEN 0 ELSE CHOOSE i \in hits : \A j \in hits : i <= j

\* server.py update_cart as one request of a task: its only datastore
\* operation is one update_one (lines 1482-1501)
update_cart_request(t) ==
    /\ tasks[t].pc = "idle"
    /\ \E caller \in {NoUser, Shopper} :
          IF caller = NoUser
          THEN /\ resp' = Resp("update_cart", "server", caller, "unresolved", 401, "none")
               /\ tasks' = [tasks EXCEPT ![t].pc = "done"]
               /\ UNCHANGED cart_docs
          ELSE \E pid \in ReqProductIds, qty \in UpdateQuantities :
                 /\ resp' = RespV("update_cart", "server", caller, "unresolved", 200,
                                  pid, qty)
                 /\ tasks' = [tasks EXCEPT ![t] =
                        [IdleTask EXCEPT !.pc = "done", !.op = "update_cart",
                                         !.user = caller]]
                 /\ IF qty <= 0
                       THEN IF CartIdx(caller) = 0 THEN UNCHANGED cart_docs
                            ELSE cart_docs' = [cart_docs EXCEPT
                                                 ![CartIdx(caller)].items = Pull(@, pid)]
                       ELSE IF CartIdxWith(caller, pid) = 0 THEN UNCHANGED cart_docs
                            ELSE cart_docs' = [cart_docs EXCEPT
                                   ![CartIdxWith(caller, pid)].items =
                                       [@ EXCEPT ![FirstOfProduct(@, pid)].quantity = qty]]
    /\ outbox' = NoOutbox
    /\ UNCHANGED <<roleVars, shopVars, pageVars, wsVars, budget>>

(***************************************************************************)
(* The checkout handlers, split at their awaits.  db.carts is cart_docs;   *)
(* db.products and db.orders are products and orders.  Nothing wraps the   *)
(* steps in a transaction, and a request can stop after any of them.       *)
(***************************************************************************)
StepAfterClearFirst(pc) ==
    IF pc = "loop" THEN "clear" ELSE IF pc = "clear" THEN "insert" ELSE "notify"

\* the order of the writes that follow the loop over the cart lines:
\* insert_one(order), then the cart's "$set items: []", then the
\* notification and the broadcasts (orders.py 204-216, server.py 1682-1695)
StepAfter(pc) ==
    IF pc = "loop" THEN "insert" ELSE IF pc = "insert" THEN "clear" ELSE "notify"

\* "if not cart or not cart.get('items')" on the document find_one returned
ReadCartIsEmpty(cart) == cart = Absent \/ cart[1].items = <<>>

\* update_one({"user_id": user_id}, {"$set": {"items": []}})
ClearCartDoc(user_id) ==
    IF CartIdx(user_id) = 0 THEN cart_docs
    ELSE [cart_docs EXCEPT ![CartIdx(user_id)].items = <<>>]

\* orders.py create_order up to its read of the cart (lines 129-135)
v1_create_order_find(t) ==
    /\ tasks[t].pc = "idle"
    /\ \E caller \in {NoUser, Shopper} :
          IF caller = NoUser
          THEN /\ resp' = Resp("create_order", "v1", caller, "unresolved", 401, "none")
               /\ tasks' = [tasks EXCEPT ![t].pc = "done"]
          ELSE IF ReadCartIsEmpty(FindCart(caller))
          THEN /\ resp' = Resp("create_order", "v1", caller, "unresolved", 400, "none")
               /\ tasks' = [tasks EXCEPT ![t].pc = "done"]
          ELSE /\ UNCHANGED resp
               /\ tasks' = [tasks EXCEPT ![t] =
                      [IdleTask EXCEPT !.pc = "loop", !.op = "v1_create_order",
                                       !.user = caller, !.cart = FindCart(caller),
                                       !.pos = 1]]
    /\ outbox' = NoOutbox
    /\ UNCHANGED <<roleVars, shopVars, pageVars, wsVars, budget, cart_docs>>

\* the loop moves to the next cart line, or ends
Advance(task) ==
    [task EXCEPT !.pos = @ + 1,
                 !.pc = IF task.pos + 1 > Len(task.cart[1].items)
                        THEN StepAfter("loop") ELSE "loop"]

\* one cart line of the loop up to the stock update: the product is read,
\* a line without product is skipped, the order item is appended and the
\* stock read is compared with the quantity (lines 141-167)
v1_create_order_product(t) ==
    /\ tasks[t].pc = "loop"
    /\ tasks[t].op = "v1_create_order"
    /\ LET item == tasks[t].cart[1].items[tasks[t].pos]
       IN IF ~ProductExists(item.product_id)
          THEN tasks' = [tasks EXCEPT ![t] = Advance(@)]
          ELSE IF products[item.product_id].stock_quantity >= item.quantity
          THEN tasks' = [tasks EXCEPT ![t].lines = Append(@, item), ![t].pc = "stock"]
          ELSE tasks' = [tasks EXCEPT ![t] = Advance([@ EXCEPT !.lines = Append(@, item)])]
    /\ UNCHANGED <<roleVars, shopVars, pageVars, wsVars, budget, cart_docs, outbox, resp>>

\* update_one({"_id": product_id}, {"$inc": {"stock_quantity": -quantity}})
\* (lines 168-171), after the await that followed the read of the stock
v1_create_order_stock(t) ==
    /\ tasks[t].pc = "stock"
    /\ tasks[t].op = "v1_create_order"
    /\ LET item == tasks[t].cart[1].items[tasks[t].pos]
       IN products' = [products EXCEPT
                         ![item.product_id].stock_quantity = @ - item.quantity]
    /\ tasks' = [tasks EXCEPT ![t] = Advance(@)]
    /\ UNCHANGED <<roleVars, carts, orders, pageVars, wsVars, budget, cart_docs,
                   outbox, resp>>

\* the order document of orders.py (lines 173-202)
v1_OrderOf(task) ==
    LET subtotal == Subtotal(task.lines)
        total_discount == TotalDiscount(task.lines)
        total == subtotal - total_discount + SHIPPING_COST
    IN OrderDoc(Len(orders) + 1, task.user,
                [i \in 1..Len(task.lines) |-> v1_OrderItem(task.lines[i])],
                Round2(subtotal), Present(Round2(total_discount)), Absent,
                SHIPPING_COST, Round2(total), "customer_app")

\* await db.orders.insert_one(order_doc) (line 204)
v1_create_order_insert(t) ==
    /\ tasks[t].pc = "insert"
    /\ tasks[t].op = "v1_create_order"
    /\ orders' = Append(orders, v1_OrderOf(tasks[t]))
    /\ tasks' = [tasks EXCEPT ![t].order = Len(orders) + 1,
                              ![t].pc = StepAfter("insert")]
    /\ UNCHANGED <<roleVars, products, carts, pageVars, wsVars, budget, cart_docs,
                   outbox, resp>>

\* await db.carts.update_one(..., {"$set": {"items": []}}) (line 205)
v1_create_order_clear(t) ==
    /\ tasks[t].pc = "clear"
    /\ tasks[t].op = "v1_create_order"
    /\ cart_docs' = ClearCartDoc(tasks[t].user)
    /\ tasks' = [tasks EXCEPT ![t].cleared = TRUE, ![t].pc = StepAfter("clear")]
    /\ UNCHANGED <<roleVars, shopVars, pageVars, wsVars, budget, outbox, resp>>

\* the notification, the two broadcasts and the return (lines 207-218)
v1_create_order_notify(t) ==
    /\ tasks[t].pc = "notify"
    /\ tasks[t].op = "v1_create_order"
    /\ tasks' = [tasks EXCEPT ![t].pc = "done"]
    /\ resp' = RespV("create_order", "v1", tasks[t].user, "unresolved", 200,
                     "none", tasks[t].order)
    /\ outbox' = Sent(<<Notif(tasks[t].user, "Order Placed!", tasks[t].order)>>,
                      <<Bcast("order_created", <<>>, tasks[t].order),
                        Sync(<<"orders", "products">>)>>)
    /\ UNCHANGED <<roleVars, shopVars, pageVars, wsVars, budget, cart_docs>>

\* server.py create_order up to the end of its loop, which only reads
\* (lines 1606-1647)
create_order_find(t) ==
    /\ tasks[t].pc = "idle"
    /\ \E caller \in {NoUser, Shopper} :
          IF caller = NoUser
          THEN /\ resp' = Resp("create_order", "server", caller, "unresolved", 401, "none")
               /\ tasks' = [tasks EXCEPT ![t].pc = "done"]
          ELSE IF ReadCartIsEmpty(FindCart(caller))
          THEN /\ resp' = Resp("create_order", "server", caller, "unresolved", 400, "none")
               /\ tasks' = [tasks EXCEPT ![t].pc = "done"]
          ELSE /\ UNCHANGED resp
               /\ tasks' = [tasks EXCEPT ![t] =
                      [IdleTask EXCEPT !.pc = StepAfter("loop"), !.op = "create_order",
                                       !.user = caller, !.cart = FindCart(caller),
                                       !.lines = Included(FindCart(caller)[1].items),
                                       !.pos = Len(FindCart(caller)[1].items) + 1]]
    /\ outbox' = NoOutbox
    /\ UNCHANGED <<roleVars, shopVars, pageVars, wsVars, budget, cart_docs>>

\* the order document of server.py (lines 1649-1680)
OrderOf(task) ==
    LET subtotal == Subtotal(task.lines)
        total_discount == TotalDiscount(task.lines)
        shipping == 150000
        final_total == (subtotal - total_discount) + shipping
    IN OrderDoc(Len(orders) + 1, task.user,
                [i \in 1..Len(task.lines) |-> OrderItem(task.lines[i])],
                Round2(subtotal), Absent, Present(Round2(total_discount)),
                shipping, Round2(final_total), "customer_app")

\* await db.orders.insert_one(order) (line 1682)
create_order_insert(t) ==
    /\ tasks[t].pc = "insert"
    /\ tasks[t].op = "create_order"
    /\ orders' = Append(orders, OrderOf(tasks[t]))
    /\ tasks' = [tasks EXCEPT ![t].order = Len(orders) + 1,
                              ![t].pc = StepAfter("insert")]
    /\ UNCHANGED <<roleVars, products, carts, pageVars, wsVars, budget, cart_docs,
                   outbox, resp>>

\* await db.carts.update_one(..., {"$set": {"items": []}}) (line 1683)
create_order_clear(t) ==
    /\ tasks[t].pc = "clear"
    /\ tasks[t].op = "create_order"
    /\ cart_docs' = ClearCartDoc(tasks[t].user)
    /\ tasks' = [tasks EXCEPT ![t].cleared = TRUE, ![t].pc = StepAfter("clear")]
    /\ UNCHANGED <<roleVars, shopVars, pageVars, wsVars, budget, outbox, resp>>

\* the owner's notification, the broadcast and the return (lines 1685-1696)
create_order_notify(t) ==
    /\ tasks[t].pc = "notify"
    /\ tasks[t].op = "create_order"
    /\ tasks' = [tasks EXCEPT ![t].pc = "done"]
    /\ resp' = RespV("create_order", "server", tasks[t].user, "unresolved", 200,
                     "none", tasks[t].order)
    /\ outbox' = Sent(IF UserExists(PRIMARY_OWNER_EMAIL)
                      THEN <<Notif(PRIMARY_OWNER_EMAIL, "New Order", 0)>>
                      ELSE <<>>,
                      <<Sync(<<"orders">>)>>)
    /\ UNCHANGED <<roleVars, shopVars, pageVars, wsVars, budget, cart_docs>>

\* the process stops while a checkout is between two of its steps
Checkouts == {"create_order", "v1_create_order"}

crash(t) ==
    /\ tasks[t].op \in Checkouts
    /\ tasks[t].pc \notin {"idle", "done", "crashed"}
    /\ tasks' = [tasks EXCEPT ![t].pc = "crashed"]
    /\ UNCHANGED <<roleVars, shopVars, pageVars, wsVars, budget, cart_docs, outbox, resp>>

(***************************************************************************)
(* Order management                                                        *)
(***************************************************************************)
OrderIds == 1..(Len(orders) + 1)                 \* the last id names no order
StatusInputs == {"preparing", "delivered", "complete", "returned"}
DiscountInputs == {-10, 5, 20000}                \* -0.01, 0.005, 20.00
Staff == "staff@shop"
Partner == "partner@shop"
AdminAllow == {"owner", "partner", "admin"}

OrderExists(id) == id \in 1..Len(orders)

\* payload items of the admin order endpoints: (product_id, quantity)
AdminItems == {<<>>, <<[product_id |-> "pX", quantity |-> 1],
                       [product_id |-> "pB", quantity |-> 1]>>}

\* the order item an admin endpoint builds from the live product
AdminLine(item_data) ==
    Line(item_data.product_id, item_data.quantity,
         products[item_data.product_id].price, products[item_data.product_id].price,
         "absent", 0, NoGroup)

AdminLines(data_items) ==
    LET found == SelectSeq(data_items, LAMBDA it : ProductExists(it.product_id))
    IN [i \in 1..Len(found) |-> AdminLine(found[i])]

SetStatusUnlessTerminal(order, status) ==
    IF order.status \in {"cancelled", "delivered"} THEN order
    ELSE [order EXCEPT !.status = status]

\* update_one({"_id": order_id}, {"$set": {"status": status, ...}}) (server.py 1803)
SetStatus(order, status) == [order EXCEPT !.status = status]

\* the same update in orders.py, lines 233-236
v1_SetStatus(order, status) == [order EXCEPT !.status = status]

\* server.py update_order_status: the handler resolves no user and no role;
\* the response records the status asked for, the order id and the order read
update_order_status ==
    \E caller \in Identities, order_id \in OrderIds, status \in StatusInputs :
        LET valid == {"pending", "preparing", "shipped", "out_for_delivery",
                      "delivered", "cancelled", "complete"}
        IN /\ IF status \notin valid
                 THEN /\ resp' = RespV("update_order_status", "server", caller, "unresolved",
                                       400, status, order_id)
                      /\ UNCHANGED budget
                      /\ outbox' = NoOutbox
                      /\ UNCHANGED orders
                 ELSE IF ~OrderExists(order_id)
                 THEN /\ resp' = RespV("update_order_status", "server", caller, "unresolved",
                                       404, status, order_id)
                      /\ UNCHANGED budget
                      /\ outbox' = NoOutbox
                      /\ UNCHANGED orders
                 ELSE /\ Serve
                      /\ orders' = [orders EXCEPT ![order_id] = SetStatus(@, status)]
                      /\ resp' = RespDoc("update_order_status", "server", caller,
                                         "unresolved", 200, status, order_id,
                                         orders[order_id])
                      /\ outbox' = Sent(IF status = "delivered" /\ UserExists(PRIMARY_OWNER_EMAIL)
                                        THEN <<Notif(PRIMARY_OWNER_EMAIL, "Order Delivered", 0)>>
                                        ELSE <<>>,
                                        <<Bcast("order_update", <<>>, order_id)>>)
           /\ UNCHANGED <<roleVars, products, carts, pageVars, raceVars, wsVars>>

\* app/services/notification.py (these two functions are imported by orders.py):
\* one notification to the order's customer about the new status
create_order_status_notification(user_id, status, order_id) ==
    <<Notif(user_id, "order_status", order_id)>>

\* one notification addressed to the admins about the cancellation
notify_admins_order_cancelled(order_id) ==
    <<Notif("admins", "order_cancelled", order_id)>>

\* orders.py update_order_status: role-gated, any status string is stored
v1_update_order_status ==
    \E caller \in Identities, order_id \in OrderIds, status \in StatusInputs :
        LET role == v1_get_user_role(caller)
        IN /\ IF role \notin AdminAllow
                 THEN /\ resp' = RespV("update_order_status", "v1", caller, role, 403,
                                       status, order_id)
                      /\ UNCHANGED budget
                      /\ outbox' = NoOutbox
                      /\ UNCHANGED orders
                 ELSE IF ~OrderExists(order_id)
                 THEN /\ resp' = RespV("update_order_status", "v1", caller, role, 404,
                                       status, order_id)
                      /\ UNCHANGED budget
                      /\ outbox' = NoOutbox
                      /\ UNCHANGED orders
                 ELSE /\ Serve
                      /\ orders' = [orders EXCEPT ![order_id] = v1_SetStatus(@, status)]
                      /\ resp' = RespDoc("update_order_status", "v1", caller, role, 200,
                                         status, order_id, orders[order_id])
                      /\ outbox' = Sent(create_order_status_notification(
                                            orders[order_id].user_id, status, order_id)
                                        \o (IF status = "cancelled"
                                            THEN notify_admins_order_cancelled(order_id)
                                            ELSE <<>>),
                                        <<Sync(<<"orders">>)>>)
           /\ UNCHANGED <<roleVars, products, carts, pageVars, raceVars, wsVars>>

\* orders.py update_order_discount: owner only; total is not rounded
v1_update_order_discount ==
    \E caller \in Identities, order_id \in OrderIds, discount \in DiscountInputs :
        LET role == v1_get_user_role(caller)
        IN /\ IF role # "owner"
                 THEN /\ resp' = Resp("update_order_discount", "v1", caller, role, 403, "none")
                      /\ UNCHANGED budget
                      /\ outbox' = NoOutbox
                      /\ UNCHANGED orders
                 ELSE IF discount < 0
                 THEN /\ resp' = Resp("update_order_discount", "v1", caller, role, 400, "none")
                      /\ UNCHANGED budget
                      /\ outbox' = NoOutbox
                      /\ UNCHANGED orders
                 ELSE IF ~OrderExists(order_id)
                 THEN /\ resp' = Resp("update_order_discount", "v1", caller, role, 404, "none")
                      /\ UNCHANGED budget
                      /\ outbox' = NoOutbox
                      /\ UNCHANGED orders
                 ELSE LET subtotal == orders[order_id].subtotal
                          shipping == orders[order_id].shipping_cost
                          new_total == subtotal + shipping - discount
                      IN /\ Serve
                         /\ orders' = [orders EXCEPT ![order_id].discount = Present(discount),
                                                     ![order_id].total = new_total]
                         /\ resp' = RespV("update_order_discount", "v1", caller, role, 200,
                                          "none", order_id)
                         /\ outbox' = Sent(<<>>, <<Sync(<<"orders">>)>>)
           /\ UNCHANGED <<roleVars, products, carts, pageVars, raceVars, wsVars>>

\* orders.py create_admin_order: live prices, conditional stock decrement
v1_create_admin_order ==
    \E caller \in Identities, data_items \in AdminItems :
        LET role == v1_get_user_role(caller)
        IN /\ IF role \notin AdminAllow
                 THEN /\ resp' = Resp("create_admin_order", "v1", caller, role, 403, "none")
                      /\ UNCHANGED budget
                      /\ outbox' = NoOutbox
                      /\ UNCHANGED <<products, orders>>
                 ELSE LET items == AdminLines(data_items)
                          subtotal == Subtotal(items)
                          total == subtotal + SHIPPING_COST
                          order_doc == OrderDoc(Len(orders) + 1, Shopper, items,
                                                Round2(subtotal), Present(0), Absent, SHIPPING_COST,
                                                Round2(total), "admin_assisted")
                      IN /\ Serve
                         /\ products' = DecrementStock(products, items)
                         /\ orders' = Append(orders, order_doc)
                         /\ resp' = RespV("create_admin_order", "v1", caller, role, 200,
                                          "none", order_doc.id)
                         /\ outbox' = Sent(<<>>, <<Sync(<<"orders", "products">>)>>)
           /\ UNCHANGED <<roleVars, carts, pageVars, raceVars, wsVars>>

\* server.py create_admin_order: rejects an empty item list; nothing is rounded
create_admin_order ==
    \E caller \in Identities, data_items \in AdminItems :
        LET role == get_user_role(caller)
        IN /\ IF role \notin AdminAllow
                 THEN /\ resp' = Resp("create_admin_order", "server", caller, role, 403, "none")
                      /\ UNCHANGED budget
                      /\ UNCHANGED orders
                 ELSE IF data_items = <<>>
                 THEN /\ resp' = Resp("create_admin_order", "server", caller, role, 400, "none")
                      /\ UNCHANGED budget
                      /\ UNCHANGED orders
                 ELSE LET order_items == AdminLines(data_items)
                          subtotal == Subtotal(order_items)
                          shipping_cost == 150000
                          total == subtotal + shipping_cost
                          order_doc == OrderDoc(Len(orders) + 1, Shopper, order_items,
                                                subtotal, Present(0), Absent, shipping_cost,
                                                total, "admin_assisted")
                      IN /\ Serve
                         /\ orders' = Append(orders, order_doc)
                         /\ resp' = RespV("create_admin_order", "server", caller, role, 200,
                                          "none", order_doc.id)
           /\ outbox' = NoOutbox
           /\ UNCHANGED <<roleVars, products, carts, pageVars, raceVars, wsVars>>

\* payload items of the admin-assisted endpoint: prices may be given; 0 = key omitted
AssistedItems == {<<[product_id |-> "pA", quantity |-> 1,
                     original_unit_price |-> 0, final_unit_price |-> 0],
                    [product_id |-> "pB", quantity |-> 2,
                     original_unit_price |-> 50000, final_unit_price |-> 45005]>>}

AssistedLine(item_data) ==
    Line(item_data.product_id, item_data.quantity,
         IF item_data.original_unit_price # 0 THEN item_data.original_unit_price
         ELSE products[item_data.product_id].price,
         IF item_data.final_unit_price # 0 THEN item_data.final_unit_price
         ELSE products[item_data.product_id].price,
         "absent", 0, NoGroup)

\* server.py create_admin_assisted_order: the customer must exist
create_admin_assisted_order ==
    \E caller \in Identities, customer_id \in {Shopper, "nobody@shop"},
       data_items \in AssistedItems :
        LET role == get_user_role(caller)
        IN /\ IF role \notin AdminAllow
                 THEN /\ resp' = Resp("create_admin_assisted_order", "server", caller, role,
                                      403, "none")
                      /\ UNCHANGED budget
                      /\ outbox' = NoOutbox
                      /\ UNCHANGED orders
                 ELSE IF ~UserExists(customer_id)
                 THEN /\ resp' = Resp("create_admin_assisted_order", "server", caller, role,
                                      404, "none")
                      /\ UNCHANGED budget
                      /\ outbox' = NoOutbox
                      /\ UNCHANGED orders
                 ELSE LET found == SelectSeq(data_items,
                                             LAMBDA it : ProductExists(it.product_id))
                          order_items == [i \in 1..Len(found) |-> AssistedLine(found[i])]
                          subtotal == Subtotal(order_items)
                          total_discount == TotalDiscount(order_items)
                          shipping == 150000
                          final_total == (subtotal - total_discount) + shipping
                          order == OrderDoc(Len(orders) + 1, customer_id, order_items,
                                            Round2(subtotal), Absent, Present(Round2(total_discount)),
                                            shipping, Round2(final_total), "admin_assisted")
                      IN /\ Serve
                         /\ orders' = Append(orders, order)
                         /\ resp' = RespV("create_admin_assisted_order", "server", caller,
                                          role, 200, "none", order.id)
                         /\ outbox' = Sent(IF UserExists(PRIMARY_OWNER_EMAIL)
                                           THEN <<Notif(PRIMARY_OWNER_EMAIL,
                                                        "Admin-Assisted Order", 0)>>
                                           ELSE <<>>,
                                           <<Sync(<<"orders">>)>>)
           /\ UNCHANGED <<roleVars, products, carts, pageVars, raceVars, wsVars>>

(***************************************************************************)
(* Specifications                                                          *)
(***************************************************************************)
(***************************************************************************)
(* ConnectionManager (server.py 39-82, app/services/websocket.py).  The    *)
(* handlers run on one event loop: another task runs only while the        *)
(* broadcast is suspended in `await conn.send_json`.  The loops iterate    *)
(* the live dict and the live sets; a Python iterator raises RuntimeError  *)
(* on its next step when the container's size differs from the size at     *)
(* the iterator's creation, and visits an unspecified selection of the     *)
(* elements when the contents changed at equal size.                       *)
(***************************************************************************)
Sockets == 1..MaxSockets
NoSocket == 0

IdleBroadcast ==
    [pc |-> "idle", phase |-> "none",
     keys |-> {}, keys_seen |-> {}, key |-> NoUser,
     snap |-> {}, seen |-> {}, conn |-> NoSocket,
     start |-> {}, attempted |-> {}, delivered |-> {}]

\* __init__: an empty dict and an empty set
IdleSockets ==
    /\ active_connections = <<>>
    /\ anonymous_connections = {}
    /\ broadcasting = IdleBroadcast

\* the websockets the manager holds
Registered ==
    anonymous_connections \cup UNION {active_connections[u] : u \in DOMAIN active_connections}

\* the positions at which the broadcast does not hold the event loop
Suspended == {"idle", "send", "done", "raised"}

\* ConnectionManager.connect, after websocket.accept()
connect(websocket, user_id) ==
    /\ broadcasting.pc \in Suspended
    /\ websocket \notin Registered
    /\ IF user_id # NoUser
          THEN /\ active_connections' =
                     [u \in DOMAIN active_connections \cup {user_id} |->
                         IF u = user_id
                         THEN (IF u \in DOMAIN active_connections
                               THEN active_connections[u] ELSE {}) \cup {websocket}
                         ELSE active_connections[u]]
               /\ UNCHANGED anonymous_connections
          ELSE /\ anonymous_connections' = anonymous_connections \cup {websocket}
               /\ UNCHANGED active_connections
    /\ UNCHANGED <<roleVars, shopVars, pageVars, raceVars, outbox, resp, budget,
                   broadcasting>>

\* ConnectionManager.disconnect, called by websocket_endpoint on
\* WebSocketDisconnect with the user_id the socket connected with
disconnect(websocket, user_id) ==
    /\ broadcasting.pc \in Suspended
    /\ IF user_id # NoUser
          THEN /\ user_id \in DOMAIN active_connections
               /\ websocket \in active_connections[user_id]
               /\ active_connections' =
                     [active_connections EXCEPT ![user_id] = @ \ {websocket}]
               /\ UNCHANGED anonymous_connections
          ELSE /\ websocket \in anonymous_connections
               /\ anonymous_connections' = anonymous_connections \ {websocket}
               /\ UNCHANGED active_connections
    /\ UNCHANGED <<roleVars, shopVars, pageVars, raceVars, outbox, resp, budget,
                   broadcasting>>

\* a request reaches `await manager.broadcast(...)`: the iterator over
\* active_connections.values() is created (line 60)
broadcast_begin ==
    /\ broadcasting.pc = "idle"
    /\ broadcasting' = [IdleBroadcast EXCEPT
                           !.pc = "outer", !.phase = "active",
                           !.keys = DOMAIN active_connections,
                           !.start = Registered]
    /\ UNCHANGED <<roleVars, shopVars, pageVars, raceVars, outbox, resp, budget,
                   active_connections, anonymous_connections>>

\* one step of `for connections in self.active_connections.values()`,
\* then the iterator of the inner loop (lines 60-61); after the last key
\* the iterator over anonymous_connections (line 66)
broadcast_next_key ==
    /\ broadcasting.pc = "outer"
    /\ IF Cardinality(DOMAIN active_connections) # Cardinality(broadcasting.keys)
          THEN \* RuntimeError: dictionary changed size during iteration
               broadcasting' = [broadcasting EXCEPT !.pc = "raised"]
          ELSE IF DOMAIN active_connections \subseteq broadcasting.keys_seen
          THEN broadcasting' = [broadcasting EXCEPT
                                  !.pc = "inner", !.phase = "anonymous",
                                  !.key = NoUser,
                                  !.snap = anonymous_connections, !.seen = {}]
          ELSE \E k \in DOMAIN active_connections \ broadcasting.keys_seen :
                 broadcasting' = [broadcasting EXCEPT
                                    !.pc = "inner", !.key = k,
                                    !.keys_seen = @ \cup {k},
                                    !.snap = active_connections[k], !.seen = {}]
    /\ UNCHANGED <<roleVars, shopVars, pageVars, raceVars, outbox, resp, budget,
                   active_connections, anonymous_connections>>

\* the set the running inner loop iterates
Iterated ==
    IF broadcasting.phase = "active" THEN active_connections[broadcasting.key]
    ELSE anonymous_connections

\* the loop is over: back to the outer loop, or the broadcast returns
Exhausted ==
    [broadcasting EXCEPT !.pc = IF broadcasting.phase = "active" THEN "outer" ELSE "done"]

\* one step of `for conn in connections` up to `await conn.send_json`
broadcast_next_conn ==
    /\ broadcasting.pc = "inner"
    /\ IF Cardinality(Iterated) # Cardinality(broadcasting.snap)
          THEN \* RuntimeError: Set changed size during iteration
               broadcasting' = [broadcasting EXCEPT !.pc = "raised"]
          ELSE IF Iterated \ broadcasting.seen = {}
          THEN broadcasting' = Exhausted
          ELSE IF Iterated = broadcasting.snap
          THEN \E c \in Iterated \ broadcasting.seen :
                 broadcasting' = [broadcasting EXCEPT !.pc = "send", !.conn = c]
          ELSE \* same size, other elements: any of them, or none, comes next
               \E c \in (Iterated \ broadcasting.seen) \cup {NoSocket} :
                 broadcasting' = IF c = NoSocket THEN Exhausted
                                 ELSE [broadcasting EXCEPT !.pc = "send", !.conn = c]
    /\ UNCHANGED <<roleVars, shopVars, pageVars, raceVars, outbox, resp, budget,
                   active_connections, anonymous_connections>>

\* `await conn.send_json(message)` returns or raises; `except: pass`
broadcast_sent ==
    /\ broadcasting.pc = "send"
    /\ \E ok \in BOOLEAN :
          broadcasting' = [broadcasting EXCEPT
                             !.pc = "inner",
                             !.seen = @ \cup {broadcasting.conn},
                             !.attempted = @ \cup {broadcasting.conn},
                             !.delivered = IF ok THEN @ \cup {broadcasting.conn} ELSE @,
                             !.conn = NoSocket]
    /\ UNCHANGED <<roleVars, shopVars, pageVars, raceVars, outbox, resp, budget,
                   active_connections, anonymous_connections>>

IdlePage ==
    /\ docs = {}
    /\ listing = [endpoint |-> "none", include_hidden |-> FALSE, limit |-> 1]
    /\ pages = <<>>
    /\ prevResp = NoPrev
    /\ began = {}

IdleShop ==
    /\ products = InitProducts
    /\ carts = [u \in {Shopper} |-> NoCart]
    /\ orders = <<>>

\* the staff of the fixture: one partner, one admin
StaffFixture ==
    /\ partners = {[email |-> Partner, deleted |-> FALSE]}
    /\ admins = {[email |-> Staff, deleted |-> FALSE]}
    /\ subscribers = {}

\* Spec: one shopper's cart, price edits and checkout
Init ==
    /\ StaffFixture
    /\ IdleShop
    /\ IdlePage
    /\ outbox = NoOutbox
    /\ resp = NoResp
    /\ IdleRace
    /\ IdleSockets
    /\ budget = MaxRequests

Next ==
    \/ get_cart
    \/ add_to_cart
    \/ update_cart
    \/ add_to_cart_enhanced
    \/ clear_cart
    \/ void_bundle_discount
    \/ update_product_price
    \/ update_product
    \/ create_order
    \/ v1_create_order

Spec == Init /\ [][Next]_vars

\* SpecOrders: order creation and management by callers of every role
\* the carts a checkout can start from: the worked example of the
\* specification (A 100 x 2, B 50 -> 40 x 1) and a sub-cent one
FixtureCarts ==
    {<<Line("pA", 2, 100000, 100000, "none", 0, NoGroup),
       Line("pB", 1, 50000, 40000, "bundle", 20, "g1")>>,
     <<Line("pB", 1, 10004, 10000, "none", 0, NoGroup)>>}

InitOrders ==
    /\ StaffFixture
    /\ products = InitProducts
    /\ carts \in [{Shopper} -> {CartOf(c) : c \in FixtureCarts}]
    /\ orders = <<>>
    /\ IdlePage
    /\ outbox = NoOutbox
    /\ resp = NoResp
    /\ IdleRace
    /\ IdleSockets
    /\ budget = MaxOrderRequests

NextOrders ==
    \/ create_order
    \/ v1_create_order
    \/ create_admin_order
    \/ v1_create_admin_order
    \/ create_admin_assisted_order
    \/ update_order_status
    \/ v1_update_order_status
    \/ v1_update_order_discount
    \/ v1_delete_product

SpecOrders == InitOrders /\ [][NextOrders]_vars

\* SpecStatus: checkouts followed by status updates through both handlers
InitStatus ==
    /\ StaffFixture
    /\ products = InitProducts
    /\ carts \in [{Shopper} -> {CartOf(c) : c \in FixtureCarts}]
    /\ orders = <<>>
    /\ IdlePage
    /\ outbox = NoOutbox
    /\ resp = NoResp
    /\ IdleRace
    /\ IdleSockets
    /\ budget = MaxStatusRequests

NextStatus ==
    \/ create_order
    \/ v1_create_order
    \/ update_order_status
    \/ v1_update_order_status

SpecStatus == InitStatus /\ [][NextStatus]_vars

\* SpecRole: the reference collections change, every identity is resolved
InitRole ==
    /\ partners = {}
    /\ admins = {}
    /\ subscribers = {}
    /\ IdleShop
    /\ IdlePage
    /\ outbox = NoOutbox
    /\ resp = NoResp
    /\ IdleRace
    /\ IdleSockets
    /\ budget = 0

NextRole ==
    \/ add_partner
    \/ delete_partner
    \/ add_admin
    \/ delete_admin
    \/ add_subscriber
    \/ delete_subscriber

SpecRole == InitRole /\ [][NextRole]_vars

\* SpecPage: a client pages through a fixed collection
\* why a document of the collection is outside the listing
Exclusions == {"deleted", "hidden", "foreign"}

\* a live, visible document of ListUser
LiveDoc(id, t) ==
    [id |-> id, created_at |-> t, deleted |-> FALSE, hidden |-> FALSE, user_id |-> ListUser]

\* documents the filter leaves out for the given reason, one per creation time
ExcludedDocs(reason) ==
    {[id |-> MaxDocs + t, created_at |-> t, deleted |-> reason = "deleted",
      hidden |-> reason = "hidden",
      user_id |-> IF reason = "foreign" THEN OtherUser ELSE ListUser] : t \in Times}

InitPage ==
    /\ partners = {}
    /\ admins = {}
    /\ subscribers = {}
    /\ IdleShop
    /\ outbox = NoOutbox
    /\ resp = NoResp
    /\ IdleRace
    /\ IdleSockets
    /\ budget = 0
    /\ listing \in [endpoint : {"products", "orders"}, include_hidden : BOOLEAN,
                    limit : Limits]
    /\ listing.endpoint = "orders" => ~listing.include_hidden
    /\ \E reason \in Exclusions, withExcluded \in BOOLEAN :
          /\ reason = "hidden" => listing.endpoint = "products"
          /\ reason = "foreign" => listing.endpoint = "orders"
          \* created_at of each id; 0 for an id that names no document
          /\ \E pick \in [DocIds -> 0..MaxTime] :
                docs = {LiveDoc(i, pick[i]) : i \in {j \in DocIds : pick[j] # 0}}
                       \cup (IF withExcluded THEN ExcludedDocs(reason) ELSE {})
    /\ pages = <<>>
    /\ prevResp = NoPrev
    /\ began = {}

NextPage ==
    \/ v1_get_products
    \/ v1_get_orders

SpecPage == InitPage /\ [][NextPage]_vars

\* SpecCursor: orders are deleted while a client pages through its orders
InitCursor ==
    /\ partners = {}
    /\ admins = {}
    /\ subscribers = {}
    /\ IdleShop
    /\ outbox = NoOutbox
    /\ resp = NoResp
    /\ IdleRace
    /\ IdleSockets
    /\ budget = MaxDeletes
    /\ listing \in [endpoint : {"orders"}, include_hidden : {FALSE}, limit : Limits]
    /\ \E withExcluded \in BOOLEAN, pick \in [DocIds -> 0..MaxTime] :
          docs = {LiveDoc(i, pick[i]) : i \in {j \in DocIds : pick[j] # 0}}
                 \cup (IF withExcluded THEN ExcludedDocs("foreign") ELSE {})
    /\ pages = <<>>
    /\ prevResp = NoPrev
    /\ began = {}

NextCursor ==
    \/ v1_get_orders
    \/ v1_delete_order

SpecCursor == InitCursor /\ [][NextCursor]_vars

\* SpecInsert: products are created while a client pages through the catalog
InitInsert ==
    /\ partners = {}
    /\ admins = {}
    /\ subscribers = {}
    /\ IdleShop
    /\ outbox = NoOutbox
    /\ resp = NoResp
    /\ IdleRace
    /\ IdleSockets
    /\ budget = MaxInserts
    /\ listing \in [endpoint : {"products"}, include_hidden : {FALSE}, limit : Limits]
    /\ \E withExcluded \in BOOLEAN, pick \in [DocIds -> 0..MaxTime] :
          docs = {LiveDoc(i, pick[i]) : i \in {j \in DocIds : pick[j] # 0}}
                 \cup (IF withExcluded THEN ExcludedDocs("hidden") ELSE {})
    /\ pages = <<>>
    /\ prevResp = NoPrev
    /\ began = {}

NextInsert ==
    \/ v1_get_products
    \/ v1_create_product

SpecInsert == InitInsert /\ [][NextInsert]_vars

\* SpecVoid: void_bundle requests on every cart of up to MaxLines lines
VoidLines ==
    {Line("pA", 2, 100000, 100000, "none", 0, NoGroup),
     Line("pB", 1, 50000, 40000, "bundle", 20, "g1"),
     Line("pA", 1, 100000, 90000, "bundle", 10, "g2")}

VoidCarts ==
    {NoCart} \cup {CartOf(c) : c \in UNION {[1..n -> VoidLines] : n \in 0..MaxLines}}

InitVoid ==
    /\ StaffFixture
    /\ products = InitProducts
    /\ carts \in [{Shopper} -> VoidCarts]
    /\ orders = <<>>
    /\ IdlePage
    /\ outbox = NoOutbox
    /\ resp = NoResp
    /\ IdleRace
    /\ IdleSockets
    /\ budget = MaxRequests

NextVoid == void_bundle_discount

SpecVoid == InitVoid /\ [][NextVoid]_vars

\* SpecQty: add, add-enhanced and update requests with any integer quantity
InitQty ==
    /\ StaffFixture
    /\ IdleShop
    /\ IdlePage
    /\ outbox = NoOutbox
    /\ resp = NoResp
    /\ IdleRace
    /\ IdleSockets
    /\ budget = MaxQtyRequests

NextQty ==
    \/ add_to_cart_any
    \/ add_to_cart_enhanced_any
    \/ update_cart

SpecQty == InitQty /\ [][NextQty]_vars

\* SpecBroadcast: one broadcast, with websockets connecting and
\* disconnecting whenever the broadcast is suspended
InitBroadcast ==
    /\ StaffFixture
    /\ IdleShop
    /\ IdlePage
    /\ outbox = NoOutbox
    /\ resp = NoResp
    /\ IdleRace
    /\ IdleSockets
    /\ budget = 0

NextBroadcast ==
    \/ \E websocket \in Sockets, user_id \in {NoUser, Shopper} :
          \/ connect(websocket, user_id)
          \/ disconnect(websocket, user_id)
    \/ broadcast_begin
    \/ broadcast_next_key
    \/ broadcast_next_conn
    \/ broadcast_sent

SpecBroadcast == InitBroadcast /\ [][NextBroadcast]_vars

\* SpecCheckout: checkouts of one user's cart run concurrently through
\* both handlers, interleaved at every await, and may stop at any step
InitCheckout ==
    /\ StaffFixture
    /\ products = InitProducts
    /\ carts = [u \in {Shopper} |-> NoCart]
    /\ orders = <<>>
    /\ IdlePage
    /\ outbox = NoOutbox
    /\ resp = NoResp
    /\ cart_docs \in {<<CartDoc(Shopper, c)>> : c \in FixtureCarts}
    /\ tasks = [t \in TaskIds |-> IdleTask]
    /\ IdleSockets
    /\ budget = 0

NextCheckout ==
    \E t \in TaskIds :
        \/ v1_create_order_find(t)
        \/ v1_create_order_product(t)
        \/ v1_create_order_stock(t)
        \/ v1_create_order_insert(t)
        \/ v1_create_order_clear(t)
        \/ v1_create_order_notify(t)
        \/ create_order_find(t)
        \/ create_order_insert(t)
        \/ create_order_clear(t)
        \/ create_order_notify(t)
        \/ crash(t)

SpecCheckout == InitCheckout /\ [][NextCheckout]_vars

\* the cart the interleaved cart requests start from
RaceCart ==
    <<Line("pA", 1, 100000, 100000, "none", 0, NoGroup),
      Line("pB", 1, 50000, 50000, "none", 0, NoGroup)>>

\* SpecLost: adds and checkouts of one user, interleaved at every await
InitLost ==
    /\ StaffFixture
    /\ products = InitProducts
    /\ carts = [u \in {Shopper} |-> NoCart]
    /\ orders = <<>>
    /\ IdlePage
    /\ outbox = NoOutbox
    /\ resp = NoResp
    /\ cart_docs = <<CartDoc(Shopper, RaceCart)>>
    /\ tasks = [t \in TaskIds |-> IdleTask]
    /\ IdleSockets
    /\ budget = 0

NextLost ==
    \E t \in TaskIds :
        \/ add_to_cart_find(t)
        \/ add_to_cart_write(t)
        \/ add_to_cart_enhanced_find(t)
        \/ add_to_cart_enhanced_write(t)
        \/ v1_create_order_find(t)
        \/ v1_create_order_product(t)
        \/ v1_create_order_stock(t)
        \/ v1_create_order_insert(t)
        \/ v1_create_order_clear(t)
        \/ v1_create_order_notify(t)
        \/ create_order_find(t)
        \/ create_order_insert(t)
        \/ create_order_clear(t)
        \/ create_order_notify(t)

SpecLost == InitLost /\ [][NextLost]_vars

\* SpecShift: adds and updates of one user, interleaved at the add's await
InitShift ==
    /\ StaffFixture
    /\ products = InitProducts
    /\ carts = [u \in {Shopper} |-> NoCart]
    /\ orders = <<>>
    /\ IdlePage
    /\ outbox = NoOutbox
    /\ resp = NoResp
    /\ cart_docs = <<CartDoc(Shopper, RaceCart)>>
    /\ tasks = [t \in TaskIds |-> IdleTask]
    /\ IdleSockets
    /\ budget = 0

NextShift ==
    \E t \in TaskIds :
        \/ add_to_cart_find(t)
        \/ add_to_cart_write(t)
        \/ update_cart_request(t)

SpecShift == InitShift /\ [][NextShift]_vars

\* SpecRace: add requests of one user run concurrently, interleaved at the
\* await between the read of the cart and the write
InitRace ==
    /\ StaffFixture
    /\ IdleShop
    /\ IdlePage
    /\ outbox = NoOutbox
    /\ resp = NoResp
    /\ IdleRace
    /\ IdleSockets
    /\ budget = 0

NextRace ==
    \E t \in TaskIds :
        \/ add_to_cart_find(t)
        \/ add_to_cart_write(t)
        \/ add_to_cart_enhanced_find(t)
        \/ add_to_cart_enhanced_write(t)

SpecRace == InitRace /\ [][NextRace]_vars

(***************************************************************************)
(* Properties: role resolution (SpecRole)                                  *)
(***************************************************************************)
Live(coll, email) == \E r \in coll : r.email = email /\ r.deleted = FALSE

Recorded(coll, email) == \E r \in coll : r.email = email

Resolvers(user) == {get_user_role(user), v1_get_user_role(user)}

\* C6 as stated: only the Partners lookup is qualified by "non-soft-deleted";
\* any Admins record gives admin and any Subscribers record gives subscriber.
C6_AnyRecord ==
    \A user \in Identities : \A role \in Resolvers(user) :
        /\ user = NoUser => role = "guest"
        /\ user = PRIMARY_OWNER_EMAIL => role = "owner"
        /\ user \notin {NoUser, PRIMARY_OWNER_EMAIL} =>
              role = IF Live(partners, user) THEN "partner"
                     ELSE IF Recorded(admins, user) THEN "admin"
                     ELSE IF Recorded(subscribers, user) THEN "subscriber"
                     ELSE "user"

\* C6 (amended): the role of an identity is guest for no identity, owner for
\* the primary owner email, and otherwise the first of partner, admin,
\* subscriber whose collection holds a non-soft-deleted record of the email,
\* else user; soft-deleted records of any of the three collections are ignored.
C6_RolePriority ==
    \A user \in Identities : \A role \in Resolvers(user) :
        /\ user = NoUser => role = "guest"
        /\ user = PRIMARY_OWNER_EMAIL => role = "owner"
        /\ user \notin {NoUser, PRIMARY_OWNER_EMAIL} =>
              role = IF Live(partners, user) THEN "partner"
                     ELSE IF Live(admins, user) THEN "admin"
                     ELSE IF Live(subscribers, user) THEN "subscriber"
                     ELSE "user"

\* a request of an identity that is both a live partner and a live admin was
\* resolved, while another collection holds only a soft-deleted record of it
C6_Witness ==
    /\ resp.caller = Staff
    /\ resp.role = "partner"
    /\ Live(partners, Staff) /\ Live(admins, Staff)
    /\ Recorded(subscribers, Staff) /\ ~Live(subscribers, Staff)

(***************************************************************************)
(* Properties: cursor pagination (SpecPage)                                *)
(***************************************************************************)
DocOf(id) == DocById(docs, id)

Newer(a, b) ==
    \/ a.created_at > b.created_at
    \/ (a.created_at = b.created_at /\ a.id > b.id)

NewestFirst(ids) ==
    \A i, j \in 1..Len(ids) : i < j => Newer(DocOf(ids[i]), DocOf(ids[j]))

\* the items of the forward traversal, in the order they were received
Seen == Concat([i \in 1..Len(pages) |-> pages[i].items])

TraversalDone == pages # <<>> /\ Last(pages).next_cursor = NoCursor

Occurrences(ids, id) == Cardinality({i \in 1..Len(ids) : ids[i] = id})

TieOrdered(ids) ==
    \A i, j \in 1..Len(ids) :
        (i < j /\ DocOf(ids[i]).created_at = DocOf(ids[j]).created_at) => ids[i] > ids[j]

Tied(d) == \E e \in Matching : e.id # d.id /\ e.created_at = d.created_at

\* C5: items with identical created_at are ordered by id, descending, in every
\* response and across page boundaries, and a group of tied items is neither
\* skipped nor duplicated when a page boundary falls inside it.
C5_TieBreak ==
    /\ \A i \in 1..Len(pages) : TieOrdered(pages[i].items)
    /\ TieOrdered(prevResp.page.items)
    /\ TieOrdered(Seen)
    /\ TraversalDone => \A d \in Matching : Tied(d) => Occurrences(Seen, d.id) = 1

\* a traversal ended after a page boundary fell between two tied items
C5_Witness ==
    /\ TraversalDone
    /\ \E i \in 1..(Len(pages) - 1) :
          DocOf(Last(pages[i].items)).created_at
              = DocOf(Head(pages[i + 1].items)).created_at

\* the cursor names no document of the collection
Stale(cursor) == cursor # NoCursor /\ ~(\E d \in docs : d.id = cursor)

\* ids are the newest up-to-limit matching documents, newest first
IsFirstPage(ids) ==
    /\ Len(ids) = IF Cardinality(Matching) < listing.limit
                  THEN Cardinality(Matching) ELSE listing.limit
    /\ \A i \in 1..Len(ids) : \E d \in Matching : d.id = ids[i]
    /\ NewestFirst(ids)
    /\ \A d \in Matching :
          (\A i \in 1..Len(ids) : ids[i] # d.id) =>
              \A i \in 1..Len(ids) : Newer(DocOf(ids[i]), d)

Listed == resp.op \in {"get_products", "get_orders"} /\ resp.status = 200

C17_Step ==
    /\ (Listed' /\ pages' # pages /\ Stale(ForwardCursor)) =>
          IsFirstPage(Last(pages').items)
    /\ (Listed' /\ pages' = pages /\ prevResp'.from # 0
            /\ Stale(pages[prevResp'.from].prev_cursor)) =>
          IsFirstPage(prevResp'.page.items)

\* C17: a listing request whose cursor names no existing document, with
\* direction next or prev, is answered with the first page: the newest
\* up-to-limit matching items, newest first, as for a request with no cursor.
C17_StaleCursorFirstPage == [][C17_Step]_vars

\* C18: when products are inserted between the page requests of a forward
\* traversal, no item that existed when the traversal began (and still
\* matches the filter) is returned twice, and once next_cursor is null every
\* such item has been returned exactly once.
C18_StableUnderInserts ==
    \A d \in began \cap Matching :
        /\ Occurrences(Seen, d.id) <= 1
        /\ TraversalDone => Occurrences(Seen, d.id) = 1

\* a traversal of several pages ended after returning a product that was
\* inserted, tied with the cursor document, between two of its requests
C18_Witness ==
    /\ TraversalDone
    /\ Len(pages) >= 2
    /\ Cardinality(began) >= 2
    /\ \E d \in Matching \ began : Occurrences(Seen, d.id) = 1

(***************************************************************************)
(* Properties: cart and checkout (Spec)                                    *)
(***************************************************************************)
Frozen(l) ==
    <<l.product_id, l.bundle_group_id, l.original_unit_price, l.final_unit_price>>

FrozenView(items) == [i \in 1..Len(items) |-> Frozen(items[i])]

\* t is s with some elements dropped, the order kept
IsSubSeq(t, s) ==
    \E f \in [1..Len(t) -> 1..Len(s)] :
        /\ \A i, j \in 1..Len(t) : i < j => f[i] < f[j]
        /\ \A i \in 1..Len(t) : t[i] = s[f[i]]

CheckedOut == resp.op = "create_order" /\ resp.status = 200

FrozenSubtotal(lines) ==
    SumOver(lines, LAMBDA l : l.original_unit_price * l.quantity)

FrozenDiscount(lines) ==
    SumOver(lines, LAMBDA l : (l.original_unit_price - l.final_unit_price) * l.quantity)

\* the discount an order stores: "discount" (orders.py) or "total_discount" (server.py)
DiscountOf(o) == IF o.discount # Absent THEN o.discount[1] ELSE o.total_discount[1]

C1_Step ==
    /\ resp'.op \in {"update_product_price", "update_product"} =>
          carts' = carts /\ orders' = orders
    /\ resp'.op = "update_cart" =>
          \A u \in DOMAIN carts :
              IsSubSeq(FrozenView(carts'[u].items), FrozenView(carts[u].items))
    /\ CheckedOut' =>
          FrozenView(Last(orders').items) = FrozenView(carts[resp'.caller].items)

\* C1: the prices frozen on a cart line do not follow the product: a price
\* edit changes no cart and no order, a quantity update keeps the frozen
\* prices of every line it leaves in the cart, and a checkout copies the
\* cart lines' frozen prices into the order items.
C1_PriceFreeze == [][C1_Step]_vars

\* an order was created whose item, added by add_to_cart, carries a unit
\* price that is no longer the product's
C1_Witness ==
    /\ CheckedOut
    /\ \E i \in 1..Len(Last(orders).items) :
          LET it == Last(orders).items[i]
          IN /\ it.discount_type # "absent"
             /\ it.original_unit_price # products[it.product_id].price

C7_ExactStep ==
    CheckedOut' =>
        LET lines == carts[resp'.caller].items
            o == Last(orders')
        IN /\ o.subtotal = FrozenSubtotal(lines)
           /\ DiscountOf(o) = FrozenDiscount(lines)
           /\ o.total = o.subtotal - DiscountOf(o) + o.shipping_cost

\* C7 as stated: subtotal, discount and total of the order are the exact sums
\* over the cart's frozen prices.
C7_Exact == [][C7_ExactStep]_vars

C7_Step ==
    CheckedOut' =>
        LET lines == carts[resp'.caller].items
            o == Last(orders')
        IN /\ o.subtotal = Round2(FrozenSubtotal(lines))
           /\ DiscountOf(o) = Round2(FrozenDiscount(lines))
           /\ o.shipping_cost = SHIPPING_COST
           /\ o.total = Round2(FrozenSubtotal(lines) - FrozenDiscount(lines)
                               + o.shipping_cost)

\* C7 (amended): checkout computes the sums over the cart's frozen prices,
\* not live prices, and stores each rounded to two decimals: subtotal =
\* round(sum original x quantity, 2), discount = round(sum (original - final)
\* x quantity, 2), total = round(sum - discount sum + shipping, 2).
C7_CheckoutTotals == [][C7_Step]_vars

\* the worked example: A (100 x 2) and B (original 50, final 40, x 1) give
\* subtotal 250, discount 10, total 240 + shipping
C7_Witness ==
    /\ CheckedOut
    /\ Last(orders).subtotal = 250000
    /\ DiscountOf(Last(orders)) = 10000
    /\ Last(orders).total = 240000 + Last(orders).shipping_cost
    /\ Len(Last(orders).items) = 2

\* C8: after a successful checkout the caller's cart still exists, has no
\* items, and the created order has status pending.
C8_AfterCheckout ==
    CheckedOut =>
        /\ carts[resp.caller].exists
        /\ carts[resp.caller].items = <<>>
        /\ orders[resp.value].status = "pending"
        /\ orders[resp.value].user_id = resp.caller

\* a checkout of a cart of two lines succeeded
C8_Witness ==
    /\ CheckedOut
    /\ Len(orders[resp.value].items) = 2
    /\ carts[resp.caller] = CartOf(<<>>)

CartOps == {"get_cart", "add_to_cart", "add_to_cart_enhanced", "update_cart",
            "clear_cart", "void_bundle_discount", "create_order"}

C9_Step ==
    /\ (resp'.op \in CartOps /\ resp'.status \in {400, 401, 404}) =>
          /\ products' = products
          /\ carts' = carts
          /\ orders' = orders
          /\ outbox' = NoOutbox
    /\ (resp'.op \in CartOps /\ resp'.caller = NoUser) => resp'.status = 401
    /\ (resp'.op = "add_to_cart" /\ resp'.caller # NoUser
            /\ resp'.arg \notin DOMAIN products) => resp'.status = 404
    /\ (resp'.op = "create_order" /\ resp'.caller # NoUser
            /\ (~carts[resp'.caller].exists \/ carts[resp'.caller].items = <<>>)) =>
          resp'.status = 400

\* C9: a cart or checkout request of an unauthenticated caller is answered
\* 401, an add of a non-existent product 404, a checkout of an absent or
\* empty cart 400; a request so rejected leaves products, carts and orders
\* unchanged and emits no notification and no broadcast.
C9_RejectedUnchanged == [][C9_Step]_vars

\* a checkout was rejected with 400 on a cart an earlier checkout had emptied
C9_Witness ==
    /\ resp.op = "create_order"
    /\ resp.status = 400
    /\ carts[resp.caller] = CartOf(<<>>)
    /\ orders # <<>>

Added == resp.op = "add_to_cart" /\ resp.status = 200

\* the lines of items with the grouping key of the added item
SameKey(items, item) ==
    {i \in 1..Len(items) :
        /\ items[i].product_id = item.product_id
        /\ items[i].bundle_group_id = item.bundle_group_id}

C12_Step ==
    Added' =>
        LET item == resp'.doc[1]
            old == carts[resp'.caller].items
            new == carts'[resp'.caller].items
        IN IF SameKey(old, item) # {}
           THEN \E i \in SameKey(old, item) :
                    new = [old EXCEPT ![i].quantity = @ + item.quantity]
           ELSE new = Append(old, item)

\* C12: an add onto a cart holding a line with the same grouping key (the
\* product with no bundle group, or the product with the same bundle group)
\* adds the quantity to that line and changes nothing else, so the number of
\* lines stays; any other add appends exactly the one new line, so a plain
\* and a bundle line of one product stay separate.
C12_AddGrouping == [][C12_Step]_vars

\* an add raised the quantity of one of two lines of the same product, one
\* plain and one in a bundle group
C12_Witness ==
    /\ Added
    /\ LET items == carts[resp.caller].items
       IN /\ Len(items) = 2
          /\ items[1].product_id = items[2].product_id
          /\ items[1].bundle_group_id # items[2].bundle_group_id
          /\ \E i \in SameKey(items, resp.doc[1]) :
                 items[i].quantity > resp.doc[1].quantity

\* s without its i-th element
RemoveAt(s, i) == SubSeq(s, 1, i - 1) \o SubSeq(s, i + 1, Len(s))

C13_Step ==
    (resp'.op = "update_cart" /\ resp'.status = 200) =>
        LET old == carts[resp'.caller].items
            new == carts'[resp'.caller].items
            hits == {i \in 1..Len(old) : old[i].product_id = resp'.arg}
        IN IF hits = {} THEN new = old
           ELSE \E i \in hits :
                   IF resp'.value > 0
                   THEN new = [old EXCEPT ![i].quantity = resp'.value]
                   ELSE new = RemoveAt(old, i)

\* C13: update(product_id, q) changes exactly one cart line: with q > 0 its
\* quantity becomes q and its prices and discount stay, with q <= 0 it is
\* removed; every other line, a line of the same product in another bundle
\* group included, is left as it was.
C13_UpdateOneLine == [][C13_Step]_vars

\* the indices of the lines an add created or changed
Touched(old, new) ==
    {i \in 1..Len(new) : i > Len(old) \/ new[i] # old[i]}

C14_Step ==
    Added' =>
        LET item == resp'.doc[1]
            old == carts[resp'.caller].items
            new == carts'[resp'.caller].items
        IN /\ item.original_unit_price = products[item.product_id].price
           /\ \A i \in Touched(old, new) :
                  new[i].original_unit_price = item.original_unit_price

\* C14: an add made after a price change prices the added units at the new
\* price: the item the add returns carries the product's current price, and
\* the cart line the add creates or increments carries that same
\* original_unit_price.
C14_NewAddSeesPrice == [][C14_Step]_vars

(***************************************************************************)
(* Properties: order management (SpecOrders)                               *)
(***************************************************************************)
\* C2: every stored order that stores a discount has
\* total = round(subtotal - discount + shipping_cost, 2), after creation and
\* after any discount adjustment.
C2_TotalInvariant ==
    \A i \in 1..Len(orders) :
        LET o == orders[i]
        IN o.discount # Absent =>
              o.total = Round2(o.subtotal - o.discount[1] + o.shipping_cost)

\* the request did not succeed and left orders and products as they were,
\* with nothing notified or broadcast
Rejected ==
    /\ resp'.status # 200
    /\ orders' = orders
    /\ products' = products
    /\ outbox' = NoOutbox

C10_Step ==
    /\ (/\ resp'.op \in {"update_order_status", "create_admin_order",
                         "create_admin_assisted_order"}
        /\ get_user_role(resp'.caller) \notin {"owner", "partner", "admin"}) => Rejected
    /\ (/\ resp'.op = "update_order_discount"
        /\ get_user_role(resp'.caller) # "owner") => Rejected

\* C10: in every implementation, an order-status update or an admin order
\* creation by a caller whose role is not owner, partner or admin, and a
\* discount adjustment by a caller whose role is not owner, is rejected and
\* changes nothing (whatever error code the rejection carries, the request
\* is not answered 200, no order or product changes, nothing is emitted).
C10_RoleGated == [][C10_Step]_vars

\* the cart lines whose product has not been deleted
Undeleted(items) == SelectSeq(items, LAMBDA it : ~products[it.product_id].deleted)

C15_Step ==
    CheckedOut' =>
        LET lines == Undeleted(carts[resp'.caller].items)
            o == Last(orders')
        IN /\ FrozenView(o.items) = FrozenView(lines)
           /\ o.subtotal = Round2(FrozenSubtotal(lines))

\* C15: a checkout of a cart with a line whose product was deleted by
\* delete_product leaves that line out of the order's items and totals and
\* creates the order from the remaining lines.
C15_DeletedSkipped == [][C15_Step]_vars

\* the stock of product pid after the conditional decrements of the lines,
\* taken in cart order
RECURSIVE StockAfter(_, _, _)
StockAfter(pid, stock, lines) ==
    IF lines = <<>> THEN stock
    ELSE LET l == Head(lines)
         IN StockAfter(pid,
                       IF l.product_id = pid /\ stock >= l.quantity
                       THEN stock - l.quantity ELSE stock,
                       Tail(lines))

C16_Step ==
    CheckedOut' =>
        LET lines == Included(carts[resp'.caller].items)
        IN /\ Len(Last(orders').items) = Len(lines)
           /\ \A pid \in DOMAIN products :
                  products'[pid].stock_quantity =
                      StockAfter(pid, products[pid].stock_quantity, lines)

\* C16: a checkout decreases the stock_quantity of each included line's
\* product by the line's quantity when the stock read for the line is at
\* least the quantity, leaves it unchanged otherwise, and includes the line
\* in the order in both cases.
C16_StockDecrement == [][C16_Step]_vars

(***************************************************************************)
(* Properties: order status (SpecOrders, SpecStatus)                       *)
(***************************************************************************)
\* the status set of the specification
StatusSet == {"pending", "preparing", "shipped", "out_for_delivery", "delivered",
              "cancelled"}

\* C19: every stored order's status is one of pending, preparing, shipped,
\* out_for_delivery, delivered, cancelled, because each update_order_status
\* handler rejects any other status and leaves the order unchanged.
C19_StatusInSet == \A i \in 1..Len(orders) : orders[i].status \in StatusSet

StatusUpdated == resp.op = "update_order_status" /\ resp.status = 200

Terminal == {"cancelled", "delivered"}

C20_TerminalStep ==
    \A i \in 1..Len(orders) :
        orders[i].status \in Terminal => orders'[i].status = orders[i].status

\* C20 as stated: once an order is cancelled or delivered, no later
\* update_order_status request changes its status.
C20_Terminal == [][C20_TerminalStep]_vars

\* the statuses server.py accepts (line 1796)
ServerValid == StatusSet \cup {"complete"}

\* the request passes the handler's checks: server.py tests the status, orders.py
\* the caller's role; both need the order to exist
Admitted(r) ==
    /\ r.op = "update_order_status"
    /\ r.value \in 1..Len(orders)
    /\ IF r.impl = "server" THEN r.arg \in ServerValid
       ELSE v1_get_user_role(r.caller) \in {"owner", "partner", "admin"}

C20_Step ==
    Admitted(resp') =>
        /\ resp'.status = 200
        /\ orders' = [orders EXCEPT ![resp'.value].status = resp'.arg]

\* C20 (amended): no status is terminal for the handlers. A status update
\* that passes the handler's checks stores the requested status whatever the
\* order's current status is, cancelled and delivered included.
C20_AnyFromAny == [][C20_Step]_vars

\* an order that the handler read as delivered was moved to another status
C20_Witness ==
    /\ StatusUpdated
    /\ resp.doc[1].status = "delivered"
    /\ orders[resp.value].status = "preparing"

(***************************************************************************)
(* Properties: concurrent adds (SpecRace)                                  *)
(***************************************************************************)
CartsOf(user_id) == {i \in 1..Len(cart_docs) : cart_docs[i].user_id = user_id}

\* C11: whatever the interleaving of add and add-enhanced requests, two
\* concurrent first adds of one user included, db.carts holds at most one
\* cart document for each user_id.
C11_OneCartPerUser == \A u \in Emails : Cardinality(CartsOf(u)) <= 1


\* C27: no cart holds two lines with the same grouping key (product_id and
\* bundle_group_id, plain lines having no group).
C27_UniqueKeys ==
    \A u \in DOMAIN carts :
        \A i, j \in 1..Len(carts[u].items) :
            (/\ carts[u].items[i].product_id = carts[u].items[j].product_id
             /\ carts[u].items[i].bundle_group_id = carts[u].items[j].bundle_group_id)
            => i = j

\* C29: every line of every cart has quantity >= 1.
C29_PositiveQuantities ==
    \A u \in DOMAIN carts :
        \A i \in 1..Len(carts[u].items) : carts[u].items[i].quantity >= 1

(***************************************************************************)
(* void_bundle_discount (SpecVoid)                                         *)
(***************************************************************************)
VoidServed(r) == r.op = "void_bundle_discount" /\ r.status = 200

\* C21: a second void_bundle(g) by the same user, directly after a first
\* one, leaves every cart exactly as the first call left it.
C21_Step ==
    (/\ VoidServed(resp) /\ VoidServed(resp')
     /\ resp'.caller = resp.caller
     /\ resp'.arg = resp.arg)
    => carts' = carts

C21_VoidIdempotent == [][C21_Step]_vars

\* two served void requests for g1, none for g2, on a cart that had a g1
\* line (pB is a plain line only after its bundle was voided)
C21_Witness ==
    /\ VoidServed(resp) /\ resp.arg = "g1"
    /\ budget = MaxRequests - 2
    /\ \E i \in 1..Len(carts[Shopper].items) :
          /\ carts[Shopper].items[i].product_id = "pB"
          /\ carts[Shopper].items[i].bundle_group_id = NoGroup
    /\ \E i \in 1..Len(carts[Shopper].items) :
          carts[Shopper].items[i].bundle_group_id = "g2"

\* C23: void_bundle(g) by an authenticated user answers 200; on each line
\* of group g it sets the final price to the line's original price, the
\* discount to none and the group to none, keeping product, quantity and
\* original price; every other line, the presence of the cart, the
\* products and the orders are unchanged (also with no matching line and
\* with no cart).
C23_Step ==
    (resp'.op = "void_bundle_discount" /\ resp'.caller # NoUser) =>
        LET before == carts[resp'.caller]
            after == carts'[resp'.caller]
        IN /\ resp'.status = 200
           /\ after.exists = before.exists
           /\ Len(after.items) = Len(before.items)
           /\ \A i \in 1..Len(before.items) :
                 IF before.items[i].bundle_group_id = resp'.arg
                 THEN /\ after.items[i].final_unit_price
                            = before.items[i].original_unit_price
                      /\ after.items[i].discount_type = "none"
                      /\ after.items[i].discount_value = 0
                      /\ after.items[i].bundle_group_id = NoGroup
                      /\ after.items[i].quantity = before.items[i].quantity
                      /\ after.items[i].original_unit_price
                            = before.items[i].original_unit_price
                      /\ after.items[i].product_id = before.items[i].product_id
                 ELSE after.items[i] = before.items[i]
           /\ products' = products
           /\ orders' = orders

C23_VoidEffectFrame == [][C23_Step]_vars

\* one served void of g1 on a cart with a g1 line and a g2 line
C23_Witness ==
    /\ VoidServed(resp) /\ resp.arg = "g1"
    /\ budget = MaxRequests - 1
    /\ \E i \in 1..Len(carts[Shopper].items) :
          /\ carts[Shopper].items[i].product_id = "pB"
          /\ carts[Shopper].items[i].final_unit_price = 50000
          /\ carts[Shopper].items[i].discount_type = "none"
    /\ \E i \in 1..Len(carts[Shopper].items) :
          /\ carts[Shopper].items[i].bundle_group_id = "g2"
          /\ carts[Shopper].items[i].final_unit_price = 90000


(***************************************************************************)
(* ConnectionManager.broadcast (SpecBroadcast)                             *)
(***************************************************************************)
\* C22: a broadcast never raises to the request that awaits it, and when
\* it returns it has attempted every connection that was registered from
\* its start to its end, whatever sends failed and whatever connect and
\* disconnect calls ran while it was suspended in a send.
C22_FireAndForget ==
    /\ broadcasting.pc # "raised"
    /\ broadcasting.pc = "done" =>
          (broadcasting.start \cap Registered) \subseteq broadcasting.attempted


(***************************************************************************)
(* The checkout's steps (SpecCheckout)                                     *)
(***************************************************************************)
Persisted(id) == \E i \in 1..Len(orders) : orders[i].id = id

LoopDone(task) == task.pos > Len(task.cart[1].items)

\* C24: at every point of a checkout, stopped or not: once it has cleared
\* the cart its order is persisted, once its order is persisted its loop
\* over the cart lines, stock decrements included, is over, and the user's
\* cart is empty only if an order of the user is persisted.
C24_StepOrder ==
    \A t \in TaskIds :
        tasks[t].op \in Checkouts =>
            /\ tasks[t].cleared => (tasks[t].order # 0 /\ Persisted(tasks[t].order))
            /\ tasks[t].order # 0 => LoopDone(tasks[t])
            /\ FindCart(tasks[t].user)[1].items = <<>> =>
                  \E i \in 1..Len(orders) : orders[i].user_id = tasks[t].user

\* a checkout stopped between the insert of its order and the clear of
\* the cart: stock decremented, order persisted, cart still non-empty
C24_Witness ==
    \E t \in TaskIds :
        /\ tasks[t].op = "v1_create_order"
        /\ tasks[t].pc = "crashed"
        /\ Persisted(tasks[t].order)
        /\ ~tasks[t].cleared
        /\ products["pB"].stock_quantity < InitStock
        /\ FindCart(Shopper)[1].items # <<>>

\* C25: the lines of a cart become at most one order (the cart is never
\* refilled here, so every order of the user comes from the same lines).
C25_OneOrderPerCart ==
    Cardinality({i \in 1..Len(orders) : orders[i].user_id = Shopper}) <= 1

\* C28: no product has a negative stock_quantity.
C28_StockNonNegative ==
    \A p \in DOMAIN products : products[p].stock_quantity >= 0


(***************************************************************************)
(* Adds against checkouts (SpecLost) and against updates (SpecShift)       *)
(***************************************************************************)
Adds == {"add_to_cart", "add_to_cart_enhanced"}

QuantityOf(items, pid) ==
    SumOver(items, LAMBDA it : IF it.product_id = pid THEN it.quantity ELSE 0)

\* what the cart started with plus what the completed adds put into it
PutIn(pid) ==
    QuantityOf(RaceCart, pid)
    + SumOver([t \in TaskIds |-> tasks[t]],
              LAMBDA task : IF /\ task.op \in Adds /\ task.pc = "done"
                               /\ task.item[1].product_id = pid
                            THEN task.item[1].quantity ELSE 0)

InCarts(pid) ==
    SumOver(cart_docs, LAMBDA doc : QuantityOf(doc.items, pid))

InOrders(pid) ==
    SumOver(orders, LAMBDA o : QuantityOf(o.items, pid))

\* C26: of every product, the quantity the cart started with plus the
\* quantity the completed adds put in is still in the cart or in the
\* orders created from it.
C26_NoLineLost ==
    \A pid \in ProductIds : InCarts(pid) + InOrders(pid) >= PutIn(pid)

\* C30: an add that found a line with its grouping key in the cart it
\* read changes or creates, in the stored cart, only lines of its own
\* product_id.
C30_Step ==
    \A t \in TaskIds :
        (/\ tasks[t].op = "add_to_cart" /\ tasks[t].pc = "found"
         /\ tasks'[t].pc = "done"
         /\ FoundIdx(tasks[t]) # 0)
        => LET before == cart_docs[CartIdx(tasks[t].user)].items
               after == cart_docs'[CartIdx(tasks[t].user)].items
           IN \A i \in 1..Len(after) :
                 (i > Len(before) \/ after[i] # before[i])
                 => after[i].product_id = tasks[t].item[1].product_id

C30_AddTargetsItsLine == [][C30_Step]_vars

====
